---------------------------- MODULE Spec2Model ----------------------------
(***************************************************************************)
(* libics: a model of the dataset handle (libics_top.c), the uncompressed  *)
(* body codec (libics_binary.c) and the gzip body codec (libics_gzip.c).   *)
(*                                                                         *)
(* The module holds several specifications, one for each part of the      *)
(* program:                                                                *)
(*   SpecOpen    IcsOpen and its mode-string parser                        *)
(*   Spec        the setters of a handle (layout, data, source)            *)
(*   SpecUpdate  IcsClose on an update-mode handle, over a file system     *)
(*   SpecZip     block reads on a gzip body                                *)
(*   SpecROI     IcsGetROIData on an uncompressed body                     *)
(*   SpecLong    the gzip reader on a body as long as the trailer counts   *)
(*   SpecScil    IcsGuessScilType                                          *)
(*   SpecBits    IcsSetLayout and IcsSetSignificantBits                    *)
(*   SpecDim     the position and the order of a dimension                 *)
(*   SpecLzw     block reads on a legacy-compress (LZW) body               *)
(*   SpecReorder the byte-order rewrite of a region of samples             *)
(*   SpecWrite   IcsClose on a write-mode handle and the read back         *)
(* Every specification leaves the variables of the other parts at their    *)
(* idle value.                                                             *)
(***************************************************************************)
EXTENDS Integers, Sequences, FiniteSets, TLC

VARIABLES
    oCall,      \* SpecOpen: the last IcsOpen call, its arguments and its result
    ics,        \* Spec: the handle (the ICS record)
    last,       \* Spec: the last call on the handle and the error it returned
    fs,         \* SpecUpdate: the file system, path -> contents
    upd,        \* SpecUpdate: the update-mode handle and the platform
    closeRes,   \* SpecUpdate: what IcsClose returned and what it was given
    zip,        \* SpecZip: the gzip body file, the handle's read-state
    zret,       \* SpecZip: the last call, its result and what it delivered
    roi,        \* SpecROI: the image, the call's arguments, the loop's state
    lzw,        \* SpecLzw: the handle of a compress body, its stream, the last call
    bo,         \* SpecReorder: a region of samples and its declared byte order
    wr          \* SpecWrite: a write-mode handle, the files, IcsClose's result

vars == <<oCall, ics, last, fs, upd, closeRes, zip, zret, roi, lzw, bo, wr>>

(***************************************************************************)
(* Bounds of the model.                                                    *)
(***************************************************************************)
\* longest mode string handed to IcsOpen
MaxModeLen == 3

\* size_t arithmetic is modular: SizeMod stands for 2^64 (SIZE_MAX + 1)
SizeMod == 32

(***************************************************************************)
(* Helpers on sequences and modular arithmetic.                            *)
(***************************************************************************)
NULL == "NULL"

SeqsUpTo(S, n) == UNION {[1..k -> S] : k \in 0..n}

\* size_t addition, subtraction and multiplication
AddSz(a, b) == (a + b) % SizeMod
SubSz(a, b) == (a - b + SizeMod) % SizeMod
MulSz(a, b) == (a * b) % SizeMod

Min(a, b) == IF a < b THEN a ELSE b

\* F(v), with v computed once before F is applied to it
At(F(_), v) == CHOOSE y \in {F(x) : x \in {v}} : TRUE

(***************************************************************************)
(* IcsOpen: the mode string.                                               *)
(***************************************************************************)
ModeChars == {"r", "w", "f", "l", "1", "2", "x"}
FlagChars == {"r", "w", "f", "l", "1", "2"}

ModeStrings == SeqsUpTo(ModeChars, MaxModeLen)

\* the locals of IcsOpen as declared
OpenLocals == [version |-> 0, forceName |-> 0, forceLocale |-> 1,
               reading |-> 0, writing |-> 0]

\* the mutant of ParseChar: a repeated 'r' is not refused
ParseCharNoDupR(st, c) ==
    CASE c = "r" -> [err |-> "Ok", st |-> [st EXCEPT !.reading = 1]]
      [] c = "w" -> IF st.writing # 0 THEN [err |-> "IllParameter", st |-> st]
                    ELSE [err |-> "Ok", st |-> [st EXCEPT !.writing = 1]]
      [] c = "f" -> IF st.forceName # 0 THEN [err |-> "IllParameter", st |-> st]
                    ELSE [err |-> "Ok", st |-> [st EXCEPT !.forceName = 1]]
      [] c = "l" -> IF st.forceLocale # 0 THEN [err |-> "IllParameter", st |-> st]
                    ELSE [err |-> "Ok", st |-> [st EXCEPT !.forceLocale = 0]]
      [] c = "1" -> IF st.version # 0 THEN [err |-> "IllParameter", st |-> st]
                    ELSE [err |-> "Ok", st |-> [st EXCEPT !.version = 1]]
      [] c = "2" -> IF st.version # 0 THEN [err |-> "IllParameter", st |-> st]
                    ELSE [err |-> "Ok", st |-> [st EXCEPT !.version = 2]]
      [] OTHER   -> [err |-> "IllParameter", st |-> st]

\* one case of the switch: ICSTR(flag, IcsErr_IllParameter); flag = value
ParseChar(st, c) ==
    CASE c = "r" -> IF st.reading # 0 THEN [err |-> "IllParameter", st |-> st]
                    ELSE [err |-> "Ok", st |-> [st EXCEPT !.reading = 1]]
      [] c = "w" -> IF st.writing # 0 THEN [err |-> "IllParameter", st |-> st]
                    ELSE [err |-> "Ok", st |-> [st EXCEPT !.writing = 1]]
      [] c = "f" -> IF st.forceName # 0 THEN [err |-> "IllParameter", st |-> st]
                    ELSE [err |-> "Ok", st |-> [st EXCEPT !.forceName = 1]]
      [] c = "l" -> IF st.forceLocale # 0 THEN [err |-> "IllParameter", st |-> st]
                    ELSE [err |-> "Ok", st |-> [st EXCEPT !.forceLocale = 0]]
      [] c = "1" -> IF st.version # 0 THEN [err |-> "IllParameter", st |-> st]
                    ELSE [err |-> "Ok", st |-> [st EXCEPT !.version = 1]]
      [] c = "2" -> IF st.version # 0 THEN [err |-> "IllParameter", st |-> st]
                    ELSE [err |-> "Ok", st |-> [st EXCEPT !.version = 2]]
      [] OTHER   -> [err |-> "IllParameter", st |-> st]

\* the for loop over the mode string, from character i on
RECURSIVE ParseMode(_, _, _)
ParseMode(mode, i, st) ==
    IF i > Len(mode) THEN [err |-> "Ok", st |-> st]
    ELSE LET r == ParseChar(st, mode[i])
         IN  IF r.err # "Ok" THEN r ELSE ParseMode(mode, i + 1, r.st)

\* IcsReadIcs was not called
NoReadIcs == [called |-> FALSE, forceName |-> 0, forceLocale |-> 0]

\* what IcsReadIcs (the header reader) may return
ReadIcsErrors == {"Ok", "FOpenIcs", "NotIcsFile"}

\* IcsOpen as a function of its mode string and of what the environment does:
\* mallocOk (the allocation of the handle) and readErr (IcsReadIcs's result).
\* The result: the error code, whether *ics holds a handle afterwards, the
\* handle's FileMode, the Version IcsOpen stored (0: the one IcsInit or the
\* header gave), and the arguments handed to IcsReadIcs.
IcsOpenResult(mode, mallocOk, readErr) ==
    LET p == ParseMode(mode, 1, OpenLocals)
        none == [error |-> "Ok", handle |-> FALSE, FileMode |-> NULL, Version |-> 0,
                 readIcs |-> NoReadIcs]
    IN  IF p.err # "Ok" THEN [none EXCEPT !.error = p.err]
        ELSE IF ~mallocOk THEN [none EXCEPT !.error = "Alloc"]
        ELSE IF p.st.reading # 0
             THEN LET args == [called |-> TRUE, forceName |-> p.st.forceName,
                               forceLocale |-> p.st.forceLocale]
                  IN  IF readErr # "Ok"
                      THEN [none EXCEPT !.error = readErr, !.readIcs = args]
                      ELSE [none EXCEPT !.handle = TRUE, !.readIcs = args,
                               !.FileMode = IF p.st.writing # 0 THEN "update" ELSE "read"]
        ELSE IF p.st.writing # 0
             THEN [none EXCEPT !.handle = TRUE, !.FileMode = "write",
                       !.Version = p.st.version]
        ELSE [none EXCEPT !.error = "IllParameter", !.handle = TRUE]

OpenIdle == [mode |-> <<>>, mallocOk |-> TRUE, called |-> FALSE,
             res |-> [error |-> "Ok", handle |-> FALSE, FileMode |-> NULL,
                      Version |-> 0, readIcs |-> NoReadIcs]]

IcsOpen ==
    /\ ~oCall.called
    /\ \E mode \in ModeStrings, mallocOk \in BOOLEAN, readErr \in ReadIcsErrors :
          oCall' = [mode |-> mode, mallocOk |-> mallocOk, called |-> TRUE,
                    res |-> IcsOpenResult(mode, mallocOk, readErr)]
    /\ UNCHANGED <<ics, last, fs, upd, closeRes, zip, zret, roi, lzw, bo, wr>>

(***************************************************************************)
(* The handle and its setters.                                             *)
(***************************************************************************)
\* most dimensions a handle holds (ICS_MAXDIM of libics.h, scaled down)
ICS_MAXDIM == 2

\* most calls made on one handle
MaxCalls == 3

\* the dimension sizes handed to IcsSetLayout
DimSizes == {0, 1, 2}

\* the strides handed to IcsSetDataWithStrides
StrideVals == {0, 1, 2}

ICSKEY_ORDER_LENGTH == 5

ICSKEY_ORDER == <<"x", "y", "z", "t", "probe">>
ICSKEY_LABEL == <<"x-position", "y-position", "z-position", "time", "probe">>

DataTypes == {"Ics_unknown", "Ics_uint8", "Ics_sint8", "Ics_uint16", "Ics_sint16",
              "Ics_uint32", "Ics_sint32", "Ics_real32", "Ics_real64",
              "Ics_complex32", "Ics_complex64"}

\* the sample kinds IcsSetLayout is handed here
LayoutTypes == {"Ics_unknown", "Ics_uint8", "Ics_uint16"}

\* the width in bytes of a sample kind (0 for unknown)
IcsGetDataTypeSize(dt) ==
    CASE dt \in {"Ics_uint8", "Ics_sint8"} -> 1
      [] dt \in {"Ics_uint16", "Ics_sint16"} -> 2
      [] dt \in {"Ics_uint32", "Ics_sint32", "Ics_real32"} -> 4
      [] dt \in {"Ics_real64", "Ics_complex32"} -> 8
      [] dt = "Ics_complex64" -> 16
      [] OTHER -> 0

IcsGetBytesPerSample(h) == IcsGetDataTypeSize(h.DataType)

\* ICS_FM_WD: the handle may be written to (it is not in read mode)
ICS_FM_WD(h) == h.FileMode # "read"

\* ICS_FM_RD: the handle may be read from (it is not in write mode)
ICS_FM_RD(h) == h.FileMode # "write"

DimIdx == 1..ICS_MAXDIM

RECURSIVE ProdSizes(_, _)
ProdSizes(h, i) ==
    IF i < 1 THEN 1 ELSE MulSz(ProdSizes(h, i - 1), h.Dim[i].Size)

\* the image size in pixels
IcsGetImageSize(h) ==
    IF h.Dimensions = 0 THEN 0
    ELSE ProdSizes(h, IF h.Dimensions < 0 THEN 0 ELSE h.Dimensions)

\* the image size in bytes
IcsGetDataSize(h) ==
    IF h.Dimensions = 0 THEN 0
    ELSE MulSz(IcsGetImageSize(h), IcsGetBytesPerSample(h))

DefaultOrder(i) ==
    IF i <= ICSKEY_ORDER_LENGTH THEN ICSKEY_ORDER[i] ELSE "dim_i"

\* the mutant of DefaultLabel: the label is the order-name
DefaultLabelIsOrder(i) ==
    IF i <= ICSKEY_ORDER_LENGTH THEN ICSKEY_ORDER[i] ELSE "dim_i"

DefaultLabel(i) ==
    IF i <= ICSKEY_ORDER_LENGTH THEN ICSKEY_LABEL[i] ELSE "dim_i"

\* DataStrides of a handle without strides (a null pointer)
NoStrides == <<>>

\* the unit of a dimension that was given none
ICS_UNITS_UNDEFINED == "undefined"

\* the tag IcsInit leaves in ScilType: four NUL characters ("" stands for
\* NUL)
NUL == ""
NoScilTag == <<NUL, NUL, NUL, NUL>>

EmptyDim == [Size |-> 0, Order |-> "", Label |-> "", Origin |-> 0, Scale |-> 1,
             Unit |-> ""]

\* the handle IcsOpen(.., "w") leaves: IcsInit's record in the given mode
NewHandle(fileMode, version) ==
    [FileMode |-> fileMode, Version |-> version, Dimensions |-> 0,
     Dim |-> [i \in DimIdx |-> EmptyDim], DataType |-> "Ics_unknown",
     SigBits |-> 0, ScilType |-> NoScilTag,
     SrcFile |-> "", SrcOffset |-> 0,
     Data |-> NULL, DataLength |-> 0, DataStrides |-> NoStrides]

\* IcsSetLayout: [error, h] from the handle and the arguments
SetLayout(h, dt, nDims, dims) ==
    IF ~ICS_FM_WD(h) THEN [error |-> "NotValidAction", h |-> h]
    ELSE IF nDims > ICS_MAXDIM THEN [error |-> "TooManyDims", h |-> h]
    ELSE [error |-> "Ok",
          h |-> [h EXCEPT !.DataType = dt,
                          !.Dim = [i \in DimIdx |->
                                     IF i <= nDims
                                     THEN [h.Dim[i] EXCEPT
                                             !.Size = dims[i],
                                             !.Order = DefaultOrder(i),
                                             !.Label = DefaultLabel(i)]
                                     ELSE h.Dim[i]],
                          !.Dimensions = nDims]]

\* the mutant of SetData: a second buffer replaces the first
SetDataNoDuplicateCheck(h, src, n) ==
    IF ~ICS_FM_WD(h) THEN [error |-> "NotValidAction", h |-> h]
    ELSE IF h.SrcFile # "" THEN [error |-> "DuplicateData", h |-> h]
    ELSE IF h.Dimensions = 0 THEN [error |-> "NoLayout", h |-> h]
    ELSE [error |-> IF n # IcsGetDataSize(h) THEN "FSizeConflict" ELSE "Ok",
          h |-> [h EXCEPT !.Data = src, !.DataLength = n, !.DataStrides = NoStrides]]

\* IcsSetData
SetData(h, src, n) ==
    IF ~ICS_FM_WD(h) THEN [error |-> "NotValidAction", h |-> h]
    ELSE IF h.SrcFile # "" THEN [error |-> "DuplicateData", h |-> h]
    ELSE IF h.Data # NULL THEN [error |-> "DuplicateData", h |-> h]
    ELSE IF h.Dimensions = 0 THEN [error |-> "NoLayout", h |-> h]
    ELSE [error |-> IF n # IcsGetDataSize(h) THEN "FSizeConflict" ELSE "Ok",
          h |-> [h EXCEPT !.Data = src, !.DataLength = n, !.DataStrides = NoStrides]]

\* lastpixel of IcsSetDataWithStrides: the sum over i < nDims of
\* (Dim[i].Size - 1) * strides[i], in size_t arithmetic
RECURSIVE LastPixel(_, _, _)
LastPixel(h, strides, i) ==
    IF i < 1 THEN 0
    ELSE AddSz(LastPixel(h, strides, i - 1),
               MulSz(SubSz(h.Dim[i].Size, 1), strides[i]))

\* IcsSetDataWithStrides
SetDataWithStrides(h, src, n, strides, nDims) ==
    IF ~ICS_FM_WD(h) THEN [error |-> "NotValidAction", h |-> h]
    ELSE IF h.SrcFile # "" THEN [error |-> "DuplicateData", h |-> h]
    ELSE IF h.Data # NULL THEN [error |-> "DuplicateData", h |-> h]
    ELSE IF h.Dimensions = 0 THEN [error |-> "NoLayout", h |-> h]
    ELSE IF nDims # h.Dimensions THEN [error |-> "IllParameter", h |-> h]
    ELSE IF MulSz(LastPixel(h, strides, nDims), IcsGetDataTypeSize(h.DataType)) > n
         THEN [error |-> "IllParameter", h |-> h]
    ELSE [error |-> IF n # IcsGetDataSize(h) THEN "FSizeConflict" ELSE "Ok",
          h |-> [h EXCEPT !.Data = src, !.DataLength = n, !.DataStrides = strides]]

\* the mutant of SetSource: an attached buffer is not looked at
SetSourceNoDataCheck(h, fname, offset) ==
    IF ~ICS_FM_WD(h) THEN [error |-> "NotValidAction", h |-> h]
    ELSE IF h.Version = 1 THEN [error |-> "NotValidAction", h |-> h]
    ELSE IF h.SrcFile # "" THEN [error |-> "DuplicateData", h |-> h]
    ELSE [error |-> "Ok", h |-> [h EXCEPT !.SrcFile = fname, !.SrcOffset = offset]]

\* IcsSetSource
SetSource(h, fname, offset) ==
    IF ~ICS_FM_WD(h) THEN [error |-> "NotValidAction", h |-> h]
    ELSE IF h.Version = 1 THEN [error |-> "NotValidAction", h |-> h]
    ELSE IF h.SrcFile # "" THEN [error |-> "DuplicateData", h |-> h]
    ELSE IF h.Data # NULL THEN [error |-> "DuplicateData", h |-> h]
    ELSE [error |-> "Ok", h |-> [h EXCEPT !.SrcFile = fname, !.SrcOffset = offset]]

\* the caller's buffers (NULL: a null pointer handed as src)
Buffers == {NULL, "bufA"}

\* the buffer lengths a caller hands over, around the layout's data size
Lengths(h) == {n \in 0..(SizeMod - 1) :
                 \/ n = 0
                 \/ /\ n + 1 >= IcsGetDataSize(h)
                    /\ n <= IcsGetDataSize(h) + 1}

\* laid: some IcsSetLayout call on the handle has returned Ok
LastIdle == [op |-> "none", error |-> "Ok", calls |-> 0, laid |-> FALSE]

Others1 == <<oCall, fs, upd, closeRes, zip, zret, roi, lzw, bo, wr>>

\* the dimension sizes a caller hands to IcsSetLayout with nDims dimensions
LayoutDims(nDims) ==
    {dims \in [DimIdx -> DimSizes] : \A i \in DimIdx : i > nDims => dims[i] = 0}

\* the stride vectors a caller hands over
StrideVectors == UNION {[1..k -> StrideVals] : k \in 0..ICS_MAXDIM}

IcsSetLayout ==
    /\ last.calls < MaxCalls
    /\ \E dt \in LayoutTypes, nDims \in (-1)..(ICS_MAXDIM + 1) :
          \E dims \in LayoutDims(nDims) :
             LET r == SetLayout(ics, dt, nDims, dims)
             IN  /\ ics' = r.h
                 /\ last' = [op |-> "IcsSetLayout", error |-> r.error,
                             calls |-> last.calls + 1,
                             laid |-> last.laid \/ r.error = "Ok"]
    /\ UNCHANGED Others1

IcsSetData ==
    /\ last.calls < MaxCalls
    /\ \E src \in Buffers, n \in Lengths(ics) :
          LET r == SetData(ics, src, n)
          IN  /\ ics' = r.h
              /\ last' = [op |-> "IcsSetData", error |-> r.error,
                          calls |-> last.calls + 1, laid |-> last.laid]
    /\ UNCHANGED Others1

IcsSetDataWithStrides ==
    /\ last.calls < MaxCalls
    /\ \E src \in Buffers, n \in Lengths(ics), strides \in StrideVectors :
          LET r == SetDataWithStrides(ics, src, n, strides, Len(strides))
          IN  /\ ics' = r.h
              /\ last' = [op |-> "IcsSetDataWithStrides", error |-> r.error,
                          calls |-> last.calls + 1, laid |-> last.laid]
    /\ UNCHANGED Others1

SourceNames == {"", "ext.ids"}

IcsSetSource ==
    /\ last.calls < MaxCalls
    /\ \E fname \in SourceNames, offset \in 0..1 :
          LET r == SetSource(ics, fname, offset)
          IN  /\ ics' = r.h
              /\ last' = [op |-> "IcsSetSource", error |-> r.error,
                          calls |-> last.calls + 1, laid |-> last.laid]
    /\ UNCHANGED Others1

\* ICS_FM_WMD: the handle may be modified (it is not in read mode)
ICS_FM_WMD(h) == h.FileMode # "read"

\* IcsSetOrder: dimension counts from 0; order and label are strings or NULL
SetOrder(h, dimension, order, label) ==
    IF ~ICS_FM_WMD(h) THEN [error |-> "NotValidAction", h |-> h]
    ELSE IF dimension >= h.Dimensions THEN [error |-> "NotValidAction", h |-> h]
    ELSE IF order # NULL /\ order # ""
         THEN [error |-> "Ok",
               h |-> [h EXCEPT !.Dim[dimension + 1].Order = order,
                               !.Dim[dimension + 1].Label =
                                   IF label # NULL /\ label # "" THEN label ELSE order]]
    ELSE IF label # NULL /\ label # ""
         THEN [error |-> "Ok", h |-> [h EXCEPT !.Dim[dimension + 1].Label = label]]
    ELSE [error |-> "NotValidAction", h |-> h]

\* IcsGetOrder: [error, order, label]; ICS_FM_RMD refuses a null handle only
GetOrder(h, dimension) ==
    IF dimension >= h.Dimensions
    THEN [error |-> "NotValidAction", order |-> NULL, label |-> NULL]
    ELSE [error |-> "Ok", order |-> h.Dim[dimension + 1].Order,
          label |-> h.Dim[dimension + 1].Label]

\* the names a caller hands to IcsSetOrder
OrderNames == {NULL, "", "u"}
LabelNames == {NULL, "", "depth"}

IcsSetOrder ==
    /\ last.calls < MaxCalls
    /\ \E dimension \in 0..ICS_MAXDIM, order \in OrderNames, label \in LabelNames :
          LET r == SetOrder(ics, dimension, order, label)
          IN  /\ ics' = r.h
              /\ last' = [op |-> "IcsSetOrder", error |-> r.error,
                          calls |-> last.calls + 1, laid |-> last.laid]
    /\ UNCHANGED Others1

\* the idle values of the variables of the other specifications
ZipIdle == "idle"
ZretIdle == [op |-> "none", error |-> "Ok", n |-> 0, out |-> <<>>,
               checked |-> FALSE, asked |-> 0, blocks |-> TRUE]
RoiIdle == "idle"
LzwIdle == "idle"
BoIdle == "idle"
WrIdle == "idle"

(***************************************************************************)
(* The file system, IcsCopyIds and IcsClose on an update-mode handle.      *)
(***************************************************************************)
\* the bytes one fread or fwrite moves (ICS_BUF_SIZE of libics_intern.h, scaled)
ICS_BUF_SIZE == 2

\* longest body of the file that is updated
MaxBody == 5

\* the two paths IcsClose touches: ics->Filename and ics->Filename + ".tmp"
FileF == "Filename"
FileT == "Filename.tmp"
Paths == {FileF, FileT, "none"}

NoFile == [exists |-> FALSE, data |-> <<>>]
File(d) == [exists |-> TRUE, data |-> d]

\* header bytes are told from body bytes by their value
OldHeaders == {<<101>>, <<101, 102>>}
NewHeaders == {<<201>>, <<201, 202, 203>>}
StaleTmp == <<99>>
BodyOf(k) == [i \in 1..k |-> i]

\* remove(path): fails when the file is missing or the directory read-only
Remove(f, path, plat) ==
    IF path \in DOMAIN f /\ f[path].exists /\ plat.dirWritable
    THEN [f EXCEPT ![path] = NoFile]
    ELSE f

\* rename(old, new) succeeds: old exists, the directory can be written, and
\* an existing new is replaced (POSIX) unless the platform refuses (Windows)
RenameOk(f, old, new, plat) ==
    /\ old \in DOMAIN f /\ new \in DOMAIN f
    /\ f[old].exists
    /\ plat.dirWritable
    /\ f[new].exists => plat.renameReplaces

Rename(f, old, new, plat) ==
    IF RenameOk(f, old, new, plat)
    THEN IF old = new THEN f ELSE [f EXCEPT ![new] = f[old], ![old] = NoFile]
    ELSE f

\* the faults injected into IcsCopyIds: which call fails, in which pass of the
\* loop, and how many bytes a failing fwrite had written
NoFault == [kind |-> "none", at |-> 0, part |-> 0]
CopyFaults ==
    {NoFault}
    \cup {[kind |-> k, at |-> 0, part |-> 0] : k \in {"openIn", "seek", "openOut", "malloc"}}
    \cup {[kind |-> k, at |-> a, part |-> w] : k \in {"read", "write"}, a \in 1..2, w \in 0..1}

Chunk(data, pos) == SubSeq(data, pos + 1, Min(Len(data), pos + ICS_BUF_SIZE))

\* the mutant of CopyLoop: the last, short block is not written
RECURSIVE CopyLoopDropsTail(_, _, _, _, _)
CopyLoopDropsTail(data, pos, out, pass, fault) ==
    LET blk == Chunk(data, pos)
        n == Len(blk)
        eof == pos + ICS_BUF_SIZE > Len(data)
    IN  IF fault.kind = "read" /\ fault.at = pass
        THEN [error |-> "FCopyIds", out |-> out]
        ELSE IF fault.kind = "write" /\ fault.at = pass /\ n > 0
        THEN [error |-> "FCopyIds", out |-> out \o SubSeq(blk, 1, Min(fault.part, n - 1))]
        ELSE IF eof THEN [error |-> "Ok", out |-> out]
        ELSE CopyLoopDropsTail(data, pos + ICS_BUF_SIZE, out \o blk, pass + 1, fault)

\* the while (!done) loop of IcsCopyIds: data is the input file, pos the read
\* position, out the output file so far. fread sets feof when it meets the end
\* of the file, that is when fewer than ICS_BUF_SIZE bytes were left; a short
\* read without feof is a read error.
RECURSIVE CopyLoop(_, _, _, _, _)
CopyLoop(data, pos, out, pass, fault) ==
    LET blk == Chunk(data, pos)
        n == Len(blk)
        eof == pos + ICS_BUF_SIZE > Len(data)
    IN  IF fault.kind = "read" /\ fault.at = pass
        THEN [error |-> "FCopyIds", out |-> out]
        ELSE IF fault.kind = "write" /\ fault.at = pass /\ n > 0
        THEN [error |-> "FCopyIds", out |-> out \o SubSeq(blk, 1, Min(fault.part, n - 1))]
        ELSE IF eof THEN [error |-> "Ok", out |-> out \o blk]
        ELSE CopyLoop(data, pos + ICS_BUF_SIZE, out \o blk, pass + 1, fault)

\* IcsCopyIds(infilename, inoffset, outfilename): [error, f]
IcsCopyIds(f, inName, inoffset, outName, plat, fault) ==
    IF ~f[inName].exists \/ fault.kind = "openIn" THEN [error |-> "FCopyIds", f |-> f]
    ELSE IF fault.kind = "seek" THEN [error |-> "FCopyIds", f |-> f]
    ELSE IF fault.kind = "openOut" \/ (~f[outName].exists /\ ~plat.dirWritable)
         THEN [error |-> "FCopyIds", f |-> f]
    ELSE LET opened == IF f[outName].exists THEN f ELSE [f EXCEPT ![outName] = File(<<>>)]
         IN  IF fault.kind = "malloc" THEN [error |-> "Alloc", f |-> opened]
             ELSE LET r == CopyLoop(f[inName].data, Min(inoffset, Len(f[inName].data)),
                                    opened[outName].data, 1, fault)
                  IN  [error |-> r.error, f |-> [opened EXCEPT ![outName] = File(r.out)]]

\* what becomes of IcsWriteIcs (the header writer): it writes the whole header,
\* fails to open the file, or fails after it has written a part of the header
WriteOutcomes == {"ok", "openFail", "partial"}

\* IcsWriteIcs(ics, NULL) writing header hdr to path: [error, f]
IcsWriteIcs(f, path, hdr, plat, outcome) ==
    IF outcome = "openFail" \/ (~f[path].exists /\ ~plat.dirWritable)
    THEN [error |-> "FOpenIcs", f |-> f]
    ELSE IF outcome = "partial"
    THEN [error |-> "FWriteIcs", f |-> [f EXCEPT ![path] = File(SubSeq(hdr, 1, Len(hdr) - 1))]]
    ELSE [error |-> "Ok", f |-> [f EXCEPT ![path] = File(hdr)]]

\* the mutant of Rollback: the partial output is removed, the temporary is
\* not renamed back
RollbackNoRename(f, tmpName, plat) == Remove(f, FileF, plat)

\* the rollback of IcsClose: remove(ics->Filename); rename(filename, ics->Filename)
Rollback(f, tmpName, plat) ==
    LET g == Remove(f, FileF, plat) IN Rename(g, tmpName, FileF, plat)

\* the update branch of IcsClose on handle h over file system f. The inputs:
\* closeErr (what IcsCloseIds returns when a read is in flight), hdr and
\* outcome (IcsWriteIcs), fault (IcsCopyIds) and garbage (the path the
\* uninitialised array filename happens to hold when no rename was made).
\* The result: the error returned, the file system, and what happened.
CloseUpdate(h, f, plat, closeErr, hdr, outcome, fault, garbage) ==
    LET e1 == IF h.BlockRead THEN closeErr ELSE "Ok"
        needcopy == h.Version = 2 /\ h.SrcFile = FileF
        renamed == needcopy /\ RenameOk(f, FileF, FileT, plat)
        f2 == IF needcopy THEN Rename(f, FileF, FileT, plat) ELSE f
        e2 == IF needcopy /\ ~renamed THEN "FTempMoveIcs" ELSE e1
        filename == IF needcopy THEN FileT ELSE garbage
        w == IF e2 = "Ok" THEN IcsWriteIcs(f2, FileF, hdr, plat, outcome)
             ELSE [error |-> e2, f |-> f2]
        c == IF w.error = "Ok" /\ needcopy
             THEN IcsCopyIds(w.f, filename, h.SrcOffset, FileF, plat, fault)
             ELSE w
        f5 == IF w.error = "Ok" /\ needcopy /\ c.error = "Ok"
              THEN Remove(c.f, filename, plat) ELSE c.f
        f6 == IF c.error # "Ok" THEN Rollback(f5, filename, plat) ELSE f5
    IN  [error |-> c.error, f |-> f6, needcopy |-> needcopy, renamed |-> renamed,
         wrote |-> e2 = "Ok", writeError |-> IF e2 = "Ok" THEN w.error ELSE "Ok",
         copied |-> w.error = "Ok" /\ needcopy,
         copyError |-> IF w.error = "Ok" /\ needcopy THEN c.error ELSE "Ok",
         hdr |-> hdr, closeIdsError |-> e1]

CloseIdle == [done |-> FALSE, error |-> "Ok", needcopy |-> FALSE, renamed |-> FALSE,
              wrote |-> FALSE, writeError |-> "Ok", copied |-> FALSE,
              copyError |-> "Ok", hdr |-> <<>>, closeIdsError |-> "Ok"]

FsIdle == [p \in Paths |-> NoFile]

UpdIdle == [Version |-> 2, SrcFile |-> "", SrcOffset |-> 0, BlockRead |-> FALSE,
            orig |-> <<>>, plat |-> [dirWritable |-> TRUE, renameReplaces |-> TRUE]]

Others2 == <<oCall, ics, last, zip, zret, roi, lzw, bo, wr>>

\* IcsClose on the update-mode handle
IcsCloseUpdate ==
    /\ ~closeRes.done
    /\ \E closeErr \in {"Ok", "FCloseIds"}, hdr \in NewHeaders,
          outcome \in WriteOutcomes, fault \in CopyFaults, garbage \in {"none", FileT} :
          LET r == CloseUpdate(upd, fs, upd.plat, closeErr, hdr, outcome, fault, garbage)
          IN  /\ fs' = r.f
              /\ closeRes' = [done |-> TRUE, error |-> r.error, needcopy |-> r.needcopy,
                              renamed |-> r.renamed, wrote |-> r.wrote,
                              writeError |-> r.writeError, copied |-> r.copied,
                              copyError |-> r.copyError, hdr |-> r.hdr,
                              closeIdsError |-> r.closeIdsError]
    /\ UNCHANGED upd
    /\ UNCHANGED Others2

\* an update-mode handle as IcsOpen(.., "rw") leaves it, over the file it read:
\* a version-2 file holding header and body (SrcFile is the file itself and
\* SrcOffset the end of the header), or a header naming another body file
InitUpdate ==
    /\ oCall = OpenIdle
    /\ lzw = LzwIdle
    /\ bo = BoIdle /\ wr = WrIdle
    /\ ics = NewHandle("write", 2)
    /\ last = LastIdle
    /\ zip = ZipIdle /\ zret = ZretIdle
    /\ roi = RoiIdle
    /\ closeRes = CloseIdle
    /\ \E hdr \in OldHeaders, k \in 0..MaxBody, embedded \in BOOLEAN, stale \in BOOLEAN,
          br \in BOOLEAN, dw \in BOOLEAN, rr \in BOOLEAN, v \in {1, 2} :
          /\ embedded => v = 2
          /\ LET content == IF embedded THEN hdr \o BodyOf(k) ELSE hdr
             IN  /\ fs = [p \in Paths |->
                            IF p = FileF THEN File(content)
                            ELSE IF p = FileT /\ stale THEN File(StaleTmp)
                            ELSE NoFile]
                 /\ upd = [Version |-> v,
                           SrcFile |-> IF embedded THEN FileF ELSE "other.ids",
                           SrcOffset |-> IF embedded THEN Len(hdr) ELSE 0,
                           BlockRead |-> br, orig |-> content,
                           plat |-> [dirWritable |-> dw, renameReplaces |-> rr]]

NextUpdate == IcsCloseUpdate

SpecUpdate == InitUpdate /\ [][NextUpdate]_vars

(***************************************************************************)
(* Claims on IcsClose in update mode (SpecUpdate).                         *)
(***************************************************************************)
\* the handle's body is embedded in the .ics file
Embedded == upd.Version = 2 /\ upd.SrcFile = FileF

\* C1: IcsClose on an update-mode handle with an embedded body: when the
\* rename to Filename.tmp succeeded and the header rewrite or the body copy
\* then failed, the original path holds the original contents again, no .tmp
\* file remains, and an error code is returned.
C1_RollbackRestores ==
    (/\ closeRes.done /\ Embedded /\ closeRes.renamed
     /\ \/ (closeRes.wrote /\ closeRes.writeError # "Ok")
        \/ (closeRes.copied /\ closeRes.copyError # "Ok"))
       => /\ fs[FileF] = File(upd.orig)
          /\ ~fs[FileT].exists
          /\ closeRes.error # "Ok"

\* the body copy failed after a renamed file and a rewritten header, over a
\* body longer than one block
C1_Witness ==
    /\ closeRes.done /\ Embedded /\ closeRes.renamed
    /\ closeRes.copied /\ closeRes.copyError = "FCopyIds"
    /\ Len(upd.orig) > upd.SrcOffset + ICS_BUF_SIZE
    /\ fs[FileF] = File(upd.orig)

\* C2: after a successful IcsClose on an update-mode handle with an embedded
\* body, the file at the original path is the new header followed by the old
\* file's bytes from SrcOffset to its end, in order, and Filename.tmp is gone.
C2_HeaderThenBody ==
    (closeRes.done /\ Embedded /\ closeRes.error = "Ok")
       => /\ fs[FileF] = File(closeRes.hdr
                               \o SubSeq(upd.orig, upd.SrcOffset + 1, Len(upd.orig)))
          /\ ~fs[FileT].exists

\* a successful update of a body of more than two blocks
C2_Witness ==
    /\ closeRes.done /\ Embedded /\ closeRes.error = "Ok"
    /\ Len(upd.orig) - upd.SrcOffset > 2 * ICS_BUF_SIZE
    /\ Len(fs[FileF].data) = Len(closeRes.hdr) + Len(upd.orig) - upd.SrcOffset

\* the error of the first step of the update branch that failed: closing the
\* read in flight, the rename to Filename.tmp, the header, the body copy
FirstCloseError ==
    IF closeRes.closeIdsError # "Ok" THEN closeRes.closeIdsError
    ELSE IF closeRes.needcopy /\ ~closeRes.renamed THEN "FTempMoveIcs"
    ELSE IF closeRes.wrote /\ closeRes.writeError # "Ok" THEN closeRes.writeError
    ELSE IF closeRes.copied /\ closeRes.copyError # "Ok" THEN closeRes.copyError
    ELSE "Ok"

\* C20 as stated: once a step of IcsClose has produced an error, the code
\* IcsClose returns is that first error; no later step or cleanup action
\* (the rename to .tmp, the header write, the body copy) replaces it.
C20_Claim ==
    closeRes.done => closeRes.error = FirstCloseError

\* C25 as stated: IcsClose on an update-mode handle never removes the file
\* at Filename unless that file was first moved to Filename.tmp by a
\* successful rename in the same call: when the rename fails, when the body
\* lives in another file (no rename attempted) and the header rewrite fails,
\* or when closing the read in flight fails, the original file still exists
\* with its original contents after IcsClose returns.
C25_Claim ==
    closeRes.done =>
       /\ ~closeRes.renamed => fs[FileF].exists
       /\ (\/ closeRes.needcopy /\ ~closeRes.renamed
           \/ ~closeRes.needcopy /\ closeRes.wrote /\ closeRes.writeError # "Ok"
           \/ closeRes.closeIdsError # "Ok")
             => fs[FileF] = File(upd.orig)

(***************************************************************************)
(* Claims on IcsOpen (SpecOpen).                                           *)
(***************************************************************************)
\* the mode string gives a flag twice, '1' and '2' being one flag (the version)
RepeatsFlag(mode) ==
    \E i, j \in 1..Len(mode) :
       /\ i < j
       /\ \/ mode[i] = mode[j]
          \/ {mode[i], mode[j]} = {"1", "2"}

HasUnknownChar(mode) == \E i \in 1..Len(mode) : mode[i] \notin FlagChars

NeitherRNorW(mode) == \A i \in 1..Len(mode) : mode[i] \notin {"r", "w"}

Has(mode, c) == \E i \in 1..Len(mode) : mode[i] = c

C9_Claim ==
    (/\ oCall.called
     /\ Has(oCall.mode, "l")
     /\ ~RepeatsFlag(oCall.mode)
     /\ ~HasUnknownChar(oCall.mode)
     /\ ~NeitherRNorW(oCall.mode))
       => /\ oCall.res.error # "IllParameter"
          /\ (Has(oCall.mode, "r") /\ oCall.mallocOk)
                => (oCall.res.readIcs.called /\ oCall.res.readIcs.forceLocale = 0)

(***************************************************************************)
(* Claims on the setters (Spec).                                           *)
(***************************************************************************)
\* the handle with the buffer attached
Attached(h, src, n, strides) ==
    [h EXCEPT !.Data = src, !.DataLength = n, !.DataStrides = strides]

SizeCode(h, n) == IF n = IcsGetDataSize(h) THEN "Ok" ELSE "FSizeConflict"

\* what C10 says of one call: r is the call's result on handle h
C10_Says(h, r, src, n, strides) ==
    IF h.Data # NULL \/ h.SrcFile # ""
    THEN r.error = "DuplicateData" /\ r.h = h
    ELSE IF h.Dimensions = 0
    THEN r.error = "NoLayout" /\ r.h = h
    ELSE r.error = SizeCode(h, n) /\ r.h = Attached(h, src, n, strides)

LastPixelBytes(h, strides) ==
    MulSz(LastPixel(h, strides, Len(strides)), IcsGetDataTypeSize(h.DataType))

C11_NeverBoth ==
    ics.FileMode = "write" => ~(ics.SrcFile # "" /\ ics.Data # NULL)

\* IcsSetSource was refused on a handle that holds a buffer
C11_Witness ==
    /\ ics.FileMode = "write"
    /\ last.op = "IcsSetSource" /\ last.error = "DuplicateData"
    /\ ics.Data # NULL /\ ics.SrcFile = ""

\* the dimension count and the sizes of the dimensions in use are those of g
SameLayout(h, g) ==
    /\ h.Dimensions = g.Dimensions
    /\ \A i \in DimIdx : i <= g.Dimensions => h.Dim[i].Size = g.Dim[i].Size

\* C12 as stated: on a write-mode handle, once an IcsSetLayout has returned Ok,
\* no later call (a second IcsSetLayout included, also after a buffer was
\* attached) changes Dimensions or a Dim[i].Size.
C12_Claim ==
    [][(ics.FileMode = "write" /\ last.laid) => SameLayout(ics', ics)]_vars

\* the sum over i < nDims of (Dim[i].Size - 1) * strides[i] in the integers
RECURSIVE LastPixelExact(_, _, _)
LastPixelExact(h, strides, i) ==
    IF i < 1 THEN 0
    ELSE LastPixelExact(h, strides, i - 1) + (h.Dim[i].Size - 1) * strides[i]

\* the last pixel of the strided buffer starts before the buffer's end
StridesFit(h, strides, n) ==
    LastPixelExact(h, strides, Len(strides)) * IcsGetDataTypeSize(h.DataType) < n

\* C13 as stated: when IcsSetDataWithStrides attaches a buffer (it returns Ok
\* or FSizeConflict), the sum over i of (size_i - 1) * stride_i, times the
\* sample width, is strictly less than the buffer length n; when that fails
\* the call returns IllParameter and attaches nothing.
C13_Claim ==
    /\ (/\ ics.FileMode = "write"
        /\ last.op = "IcsSetDataWithStrides"
        /\ last.error \in {"Ok", "FSizeConflict"})
          => StridesFit(ics, ics.DataStrides, ics.DataLength)
    /\ (ics.FileMode = "write" /\ ics.Data = NULL /\ ics.SrcFile = ""
                               /\ ics.Dimensions # 0)
          => \A src \in Buffers, n \in Lengths(ics), strides \in StrideVectors :
                (Len(strides) = ics.Dimensions /\ ~StridesFit(ics, strides, n))
                   => LET r == SetDataWithStrides(ics, src, n, strides, Len(strides))
                      IN  r.error = "IllParameter" /\ r.h = ics

DefaultNames(h) ==
    \A i \in DimIdx : i <= h.Dimensions =>
       /\ h.Dim[i].Order = ICSKEY_ORDER[i]
       /\ h.Dim[i].Label = ICSKEY_LABEL[i]
       /\ GetOrder(h, i - 1) = [error |-> "Ok", order |-> ICSKEY_ORDER[i],
                                label |-> ICSKEY_LABEL[i]]

\* the order-names and labels of g are those of h
SameNames(h, g) ==
    \A i \in DimIdx : h.Dim[i].Order = g.Dim[i].Order /\ h.Dim[i].Label = g.Dim[i].Label

IcsFillByteOrder(bytes, littleEndian) ==
    [i \in 1..bytes |-> IF littleEndian THEN i ELSE bytes - i + 1]

\* the mutant of IcsReorderIds: the bytes are moved within buf, without the
\* copy of the sample in imel
IcsReorderIdsNoImel(buf, srcByteOrder, bytes, littleEndian) ==
    LET dstByteOrder == IcsFillByteOrder(bytes, littleEndian)
        different == \E i \in 1..bytes : srcByteOrder[i] # dstByteOrder[i]
        empty == \E i \in 1..bytes : srcByteOrder[i] = 0
        Moved(sample) ==
           LET f[i \in 0..bytes] ==
                  IF i = 0 THEN sample
                  ELSE [f[i - 1] EXCEPT ![dstByteOrder[i]] = f[i - 1][srcByteOrder[i]]]
           IN  f[bytes]
    IN  IF Len(buf) % bytes # 0
        THEN [error |-> "BitsVsSizeConfl", buf |-> buf]
        ELSE IF ~different \/ empty
        THEN [error |-> "Ok", buf |-> buf]
        ELSE [error |-> "Ok",
              buf |-> [k \in 1..Len(buf) |->
                         LET j == (k - 1) \div bytes
                         IN  Moved(SubSeq(buf, j * bytes + 1, j * bytes + bytes))
                                [((k - 1) % bytes) + 1]]]

\* IcsReorderIds(buf, length, srcByteOrder, bytes): [error, buf]. Byte i of
\* a sample is read at srcByteOrder[i] and stored at dstByteOrder[i].
IcsReorderIds(buf, srcByteOrder, bytes, littleEndian) ==
    LET dstByteOrder == IcsFillByteOrder(bytes, littleEndian)
        different == \E i \in 1..bytes : srcByteOrder[i] # dstByteOrder[i]
        empty == \E i \in 1..bytes : srcByteOrder[i] = 0
    IN  IF Len(buf) % bytes # 0
        THEN [error |-> "BitsVsSizeConfl", buf |-> buf]
        ELSE IF ~different \/ empty
        THEN [error |-> "Ok", buf |-> buf]
        ELSE [error |-> "Ok",
              buf |-> [k \in 1..Len(buf) |->
                         LET j == (k - 1) \div bytes
                             i == CHOOSE i \in 1..bytes :
                                     dstByteOrder[i] = ((k - 1) % bytes) + 1
                         IN  buf[j * bytes + srcByteOrder[i]]]]

(***************************************************************************)
(* The gzip body: the deflate stream, the trailer and IcsReadZipBlock.     *)
(***************************************************************************)
\* most codes of the deflate stream before its end code
MaxTokens == 3

\* the values one byte of the trailer takes (256 in the code, scaled); the
\* four-byte long of the trailer counts modulo LongMod (2^32 in the code)
ByteMod == 2
LongMod == ByteMod * ByteMod * ByteMod * ByteMod

\* the deflate stream, one byte for each code: a literal code b stands for
\* the byte b, a match code RepBase + b for two bytes b, EndCode ends the
\* stream
BodyBytes == {0, 1}
LitCodes == BodyBytes
RepBase == 2
RepCodes == {RepBase + b : b \in BodyBytes}
EndCode == 9
DeflateCodes == LitCodes \cup RepCodes

\* the bytes a sequence of codes inflates to
RECURSIVE Decode(_)
Decode(codes) ==
    IF codes = <<>> THEN <<>>
    ELSE LET t == Head(codes)
         IN  (IF t \in LitCodes THEN <<t>> ELSE <<t - RepBase, t - RepBase>>)
             \o Decode(Tail(codes))

\* crc32(crc, buf, len): a checksum of the bytes, folded into a running value
RECURSIVE crc32(_, _)
crc32(crc, buf) ==
    IF buf = <<>> THEN crc
    ELSE crc32((2 * crc + Head(buf) + 1) % LongMod, Tail(buf))

\* icsPutLong: the four bytes of x, least significant first
icsPutLong(x) ==
    <<x % ByteMod, (x \div ByteMod) % ByteMod,
      (x \div (ByteMod * ByteMod)) % ByteMod,
      (x \div (ByteMod * ByteMod * ByteMod)) % ByteMod>>

\* icsGetLong at file position pos; past the end of the file getc gives EOF
\* and the value matches no checksum and no length (-1 here)
icsGetLong(file, pos) ==
    IF pos + 4 > Len(file) THEN -1
    ELSE file[pos + 1] + file[pos + 2] * ByteMod
         + file[pos + 3] * ByteMod * ByteMod
         + file[pos + 4] * ByteMod * ByteMod * ByteMod

\* the trailer IcsWriteZip writes: the checksum, then the length as a long
Trailer(body) == icsPutLong(crc32(0, body)) \o icsPutLong(Len(body) % LongMod)

\* one byte of the trailer altered: the first of the checksum or of the length
TrailerKinds == {"good", "crc", "len"}
Alter(tr, kind) ==
    CASE kind = "crc" -> [tr EXCEPT ![1] = (@ + 1) % ByteMod]
      [] kind = "len" -> [tr EXCEPT ![5] = (@ + 1) % ByteMod]
      [] OTHER -> tr

\* the file behind the gzip header: deflate stream, end code, trailer
GzipFile(codes, kind) == codes \o <<EndCode>> \o Alter(Trailer(Decode(codes)), kind)

\* the z_stream after inflateInit2: nothing pending, nothing written
NewStream == [pend |-> 0, val |-> 0, done |-> FALSE, total_out |-> 0]

\* inflate(stream, Z_NO_FLUSH) on input in (used bytes of it consumed) with
\* left bytes of output space: [s, used, out, err]. zlib decodes the next code
\* whenever input is left, also when the output is full, and stops on a full
\* output only when it has a byte to write; it gives Z_STREAM_END on the end
\* code, Z_BUF_ERROR when it could neither read nor write, Z_DATA_ERROR on a
\* byte that is no code.
RECURSIVE inflate(_, _, _, _, _)
inflate(s, in, used, left, out) ==
    LET leave == [s |-> s, used |-> used, out |-> out,
                  err |-> IF used = 0 /\ out = <<>> THEN "Z_BUF_ERROR" ELSE "Z_OK"]
    IN  IF s.done THEN [s |-> s, used |-> used, out |-> out, err |-> "Z_STREAM_END"]
        ELSE IF s.pend > 0
        THEN IF left = 0 THEN leave
             ELSE inflate([s EXCEPT !.pend = @ - 1, !.total_out = AddSz(@, 1)],
                          in, used, left - 1, Append(out, s.val))
        ELSE IF used = Len(in) THEN leave
        ELSE LET t == in[used + 1]
             IN  IF t = EndCode
                 THEN [s |-> [s EXCEPT !.done = TRUE], used |-> used + 1, out |-> out,
                       err |-> "Z_STREAM_END"]
                 ELSE IF t \in LitCodes
                 THEN inflate([s EXCEPT !.pend = 1, !.val = t], in, used + 1, left, out)
                 ELSE IF t \in RepCodes
                 THEN inflate([s EXCEPT !.pend = 2, !.val = t - RepBase],
                              in, used + 1, left, out)
                 ELSE [s |-> s, used |-> used, out |-> out, err |-> "Z_DATA_ERROR"]

\* the gzip read-state of a Ics_BlockRead: the position in the file behind
\* the gzip header, the z_stream and ZlibCRC
NewZipRead == [pos |-> 0, s |-> NewStream, crc |-> 0]

\* the inner loop of IcsReadZipBlock over one input buffer in: inflate into
\* blocks of at most ICS_BUF_SIZE bytes until the output is not filled or
\* nothing is left to do (err is then set to Z_OK, whatever inflate gave)
RECURSIVE ZipInner(_, _, _, _, _, _)
ZipInner(s, in, used, todo, out, crc) ==
    IF todo = 0
    THEN [s |-> s, used |-> used, todo |-> todo, out |-> out, crc |-> crc, err |-> "Z_OK"]
    ELSE LET bufsize == Min(todo, ICS_BUF_SIZE)
             Rest(r) ==
                LET done == Len(r.out)
                IN  IF r.err \notin {"Z_OK", "Z_STREAM_END", "Z_BUF_ERROR"}
                    THEN [s |-> r.s, used |-> used + r.used, todo |-> todo,
                          out |-> out, crc |-> crc, err |-> r.err]
                    ELSE IF done = bufsize
                    THEN ZipInner(r.s, in, used + r.used, todo - done, out \o r.out,
                                  crc32(crc, r.out))
                    ELSE [s |-> r.s, used |-> used + r.used, todo |-> todo - done,
                          out |-> out \o r.out, crc |-> crc32(crc, r.out),
                          err |-> r.err]
         IN  At(Rest, inflate(s, SubSeq(in, used + 1, Len(in)), 0, bufsize, <<>>))

\* the outer loop of IcsReadZipBlock: fread a buffer, run the inner loop,
\* until the stream ends or nothing is left to do; then the fseek back over
\* the unused input. [z, out, err]
RECURSIVE ZipOuter(_, _, _, _)
ZipOuter(file, z, todo, out) ==
    LET in == Chunk(file, z.pos)
    IN  IF Len(in) = 0 /\ todo > 0
        THEN [z |-> z, out |-> out, err |-> "Z_STREAM_ERROR"]
        ELSE LET Rest(r) ==
                    LET zEnd == [pos |-> z.pos + r.used, s |-> r.s, crc |-> r.crc]
                    IN  IF r.err = "Z_DATA_ERROR"
                        THEN [z |-> [zEnd EXCEPT !.pos = z.pos + Len(in)],
                              out |-> r.out, err |-> r.err]
                        ELSE IF r.err # "Z_STREAM_END" /\ r.todo > 0
                        THEN ZipOuter(file, [zEnd EXCEPT !.pos = z.pos + Len(in)],
                                      r.todo, r.out)
                        ELSE [z |-> zEnd, out |-> r.out, err |-> r.err]
             IN  At(Rest, ZipInner(z.s, in, 0, todo, out, z.crc))

\* IcsReadZipBlock(icsStruct, outBuf, len): [z, out, error, checked]; checked
\* tells that the trailer was read
ReadZipBlock(file, z, len) ==
    LET Rest(r) ==
           LET sawEnd == r.err = "Z_STREAM_END"
               crcOk == icsGetLong(file, r.z.pos) = r.z.crc
               lenOk == icsGetLong(file, r.z.pos + 4) = r.z.s.total_out
               err == IF sawEnd /\ ~(crcOk /\ lenOk) THEN "Z_STREAM_ERROR" ELSE r.err
               pos == IF ~sawEnd THEN r.z.pos
                      ELSE Min(Len(file), r.z.pos + (IF crcOk THEN 8 ELSE 4))
               delivered == SubSz(r.z.s.total_out, z.s.total_out)
           IN  [z |-> [r.z EXCEPT !.pos = pos], out |-> r.out,
                error |-> CASE r.err = "Z_DATA_ERROR" -> "FReadIds"
                            [] err = "Z_STREAM_ERROR" -> "CorruptedStream"
                            [] err = "Z_STREAM_END" ->
                                  IF len # delivered THEN "EndOfStream" ELSE "Ok"
                            [] err = "Z_OK" -> "Ok"
                            [] OTHER -> "DecompressionProblem",
                checked |-> sawEnd]
    IN  At(Rest, ZipOuter(file, z, len, <<>>))

\* IcsSetZipBlock without its loop: one block is read and dropped
SetZipBlockOnce(file, z, n, checked) ==
    LET Last(r) == [z |-> r.z, error |-> r.error, checked |-> checked \/ r.checked]
    IN  At(Last, ReadZipBlock(file, z, Min(n, ICS_BUF_SIZE)))

\* the loop of IcsSetZipBlock(offset, SEEK_CUR): read and drop offset bytes
\* in blocks of at most ICS_BUF_SIZE bytes. [z, error, checked]
RECURSIVE SetZipBlock(_, _, _, _)
SetZipBlock(file, z, n, checked) ==
    LET bufsize == ICS_BUF_SIZE
        More(r) ==
           IF r.error # "Ok"
           THEN [z |-> r.z, error |-> r.error, checked |-> checked \/ r.checked]
           ELSE SetZipBlock(file, r.z, n - bufsize, checked \/ r.checked)
        Last(r) == [z |-> r.z, error |-> r.error, checked |-> checked \/ r.checked]
    IN  IF n > bufsize
        THEN At(More, ReadZipBlock(file, z, bufsize))
        ELSE At(Last, ReadZipBlock(file, z, n))

\* the gzip body is a one-byte-per-sample image: ByteOrder holds one entry,
\* and the machine's order of one byte is the same on every machine
ZipByteOrder == <<1>>

\* IcsOpenIds on the gzip handle: [error, open, z]. A read in flight is
\* closed first; IcsOpenZip refuses a bad gzip header and leaves BlockRead
\* null.
OpenIdsZip(zp) ==
    IF ~zp.hdrOk THEN [error |-> "CorruptedStream", open |-> FALSE, z |-> NewZipRead]
    ELSE [error |-> "Ok", open |-> TRUE, z |-> NewZipRead]

\* IcsReadIdsBlock on the gzip handle: IcsReadZipBlock, then IcsReorderIds
\* when the read gave no error
ReadIdsBlockZip(zp, z, n) ==
    LET Rest(r) ==
           LET o == IcsReorderIds(r.out, ZipByteOrder, 1, TRUE)
           IN  IF r.error # "Ok" THEN r
               ELSE [r EXCEPT !.error = o.error, !.out = o.buf]
    IN  At(Rest, ReadZipBlock(zp.file, z, n))

Others3 == <<oCall, ics, last, fs, upd, closeRes, roi, lzw, bo, wr>>

\* the result of a call, kept for the claims: asked is what the calls since
\* the body was opened requested together, blocks whether they all were
\* IcsGetDataBlock or one IcsGetData
ZipRet(op, error, n, out, checked, asked, blocks) ==
    [op |-> op, error |-> error, n |-> n, out |-> out,
     checked |-> checked, asked |-> asked, blocks |-> blocks]

\* the lengths a caller asks for: IcsGetData up to one byte more than the
\* body holds, the block calls until together they asked for that much
ZipLengths == 0..(Len(zip.body) + 1)
ZipBlockLengths == 0..(Len(zip.body) + 1 - zip.asked)

\* IcsGetData(ics, dest, n) on the gzip handle: IcsReadIds opens the body,
\* reads one block of n bytes and closes the body
IcsGetDataZip ==
    /\ \E n \in ZipLengths :
          IF n = 0
          THEN /\ zret' = ZipRet("IcsGetData", "Ok", n, <<>>, FALSE, zip.asked, zip.blocks)
               /\ UNCHANGED zip
          ELSE \E o \in {OpenIdsZip(zip)} : \E r \in {ReadIdsBlockZip(zip, o.z, n)} :
                   /\ zip' = [zip EXCEPT !.open = FALSE, !.z = NewZipRead,
                                         !.asked = 0, !.blocks = TRUE]
                   /\ zret' = IF o.error # "Ok"
                              THEN ZipRet("IcsGetData", o.error, n, <<>>, FALSE, 0, TRUE)
                              ELSE ZipRet("IcsGetData", r.error, n, r.out, r.checked,
                                          n, TRUE)
    /\ UNCHANGED Others3

\* IcsGetDataBlock(ics, dest, n) on the gzip handle: the body is opened if no
\* read is in flight and stays open
IcsGetDataBlockZip ==
    /\ \E n \in ZipBlockLengths :
          IF n = 0
          THEN /\ zret' = ZipRet("IcsGetDataBlock", "Ok", n, <<>>, FALSE, zip.asked,
                                 zip.blocks)
               /\ UNCHANGED zip
          ELSE \E o \in {IF zip.open
                           THEN [error |-> "Ok", open |-> TRUE, z |-> zip.z]
                           ELSE OpenIdsZip(zip)} :
               \E r \in {ReadIdsBlockZip(zip, o.z, n)} :
                   IF o.error # "Ok"
                   THEN /\ zip' = [zip EXCEPT !.open = FALSE, !.z = NewZipRead,
                                              !.asked = 0, !.blocks = TRUE]
                        /\ zret' = ZipRet("IcsGetDataBlock", o.error, n, <<>>, FALSE,
                                          0, TRUE)
                   ELSE /\ zip' = [zip EXCEPT !.open = TRUE, !.z = r.z,
                                              !.asked = zip.asked + n]
                        /\ zret' = ZipRet("IcsGetDataBlock", r.error, n, r.out,
                                          r.checked, zip.asked + n, zip.blocks)
    /\ UNCHANGED Others3

\* IcsSkipDataBlock(ics, n) on the gzip handle: IcsSetZipBlock reads and drops
\* n bytes
IcsSkipDataBlockZip ==
    /\ \E n \in ZipBlockLengths :
          IF n = 0
          THEN /\ zret' = ZipRet("IcsSkipDataBlock", "Ok", n, <<>>, FALSE, zip.asked,
                                 zip.blocks)
               /\ UNCHANGED zip
          ELSE \E o \in {IF zip.open
                           THEN [error |-> "Ok", open |-> TRUE, z |-> zip.z]
                           ELSE OpenIdsZip(zip)} :
               \E r \in {SetZipBlock(zip.file, o.z, n, FALSE)} :
                   IF o.error # "Ok"
                   THEN /\ zip' = [zip EXCEPT !.open = FALSE, !.z = NewZipRead,
                                              !.asked = 0, !.blocks = TRUE]
                        /\ zret' = ZipRet("IcsSkipDataBlock", o.error, n, <<>>, FALSE,
                                          0, TRUE)
                   ELSE /\ zip' = [zip EXCEPT !.open = TRUE, !.z = r.z,
                                              !.asked = zip.asked + n,
                                              !.blocks = FALSE]
                        /\ zret' = ZipRet("IcsSkipDataBlock", r.error, n, <<>>,
                                          r.checked, zip.asked + n, FALSE)
    /\ UNCHANGED Others3

\* a read-mode handle on a gzip body that IcsWriteZip wrote from some bytes,
\* with the trailer as written or with one byte of it altered, or on a file
\* that does not start with a gzip header
InitZip ==
    /\ oCall = OpenIdle
    /\ lzw = LzwIdle
    /\ bo = BoIdle /\ wr = WrIdle
    /\ ics = NewHandle("read", 2)
    /\ last = LastIdle
    /\ fs = FsIdle /\ upd = UpdIdle /\ closeRes = CloseIdle
    /\ roi = RoiIdle
    /\ zret = ZretIdle
    /\ \E k \in 1..MaxTokens, kind \in TrailerKinds, hdrOk \in BOOLEAN :
          \E codes \in [1..k -> DeflateCodes] :
             /\ ~hdrOk => (kind = "good" /\ k = 1)
             /\ zip = [file |-> GzipFile(codes, kind), body |-> Decode(codes),
                    kind |-> kind, hdrOk |-> hdrOk,
                    open |-> FALSE, z |-> NewZipRead, asked |-> 0, blocks |-> TRUE]

NextZip ==
    \/ IcsGetDataZip
    \/ IcsGetDataBlockZip
    \/ IcsSkipDataBlockZip

SpecZip == InitZip /\ [][NextZip]_vars

(***************************************************************************)
(* Claims on the gzip reader (SpecZip).                                    *)
(***************************************************************************)
\* C3 as stated: on a gzip body whose trailer was altered (checksum or
\* length), a read that reaches the end of the body, IcsGetData or
\* IcsGetDataBlock calls that together ask for exactly the body's length,
\* returns CorruptedStream.
C3_Claim ==
    (/\ zret.op \in {"IcsGetData", "IcsGetDataBlock"}
     /\ zip.hdrOk /\ zip.kind # "good"
     /\ zret.blocks /\ zret.n > 0
     /\ zret.asked = Len(zip.body))
       => zret.error = "CorruptedStream"

(***************************************************************************)
(* The uncompressed body and IcsGetROIData.                                *)
(***************************************************************************)
\* a pointer to a vector of size_t: null, or the vector
NullVec == [null |-> TRUE, v |-> <<>>]
Vec(v) == [null |-> FALSE, v |-> v]

\* the Ics_BlockRead of an uncompressed body: no read in flight
BrIdle == [open |-> FALSE, pos |-> 0]

\* the value of a size_t handed to a long parameter
AsLong(n) == IF 2 * n >= SizeMod THEN n - SizeMod ELSE n

\* IcsSkipIdsBlock on an uncompressed body: fseek(file, (long)n, SEEK_CUR),
\* which fails (without ferror: EndOfStream) on a position before the file
SkipIdsBlock(pos, n) ==
    IF pos + AsLong(n) < 0 THEN [error |-> "EndOfStream", pos |-> pos]
    ELSE [error |-> "Ok", pos |-> pos + AsLong(n)]

\* IcsReadIdsBlock on an uncompressed body: fread of n bytes at pos, then
\* IcsReorderIds when all n bytes were read. [error, out, pos]
ReadIdsBlock(h, r, pos, n) ==
    LET got == SubSeq(r.file, pos + 1, Min(Len(r.file), pos + n))
        o == IcsReorderIds(got, r.ByteOrder, IcsGetBytesPerSample(h), r.littleEndian)
    IN  IF Len(got) # n
        THEN [error |-> "EndOfStream", out |-> got, pos |-> pos + Len(got)]
        ELSE [error |-> o.error, out |-> o.buf, pos |-> pos + n]

\* stride[i] of IcsGetROIData: the imels between neighbours in dimension i
RECURSIVE RoiStride(_, _)
RoiStride(h, i) ==
    IF i <= 1 THEN 1 ELSE MulSz(RoiStride(h, i - 1), h.Dim[i - 1].Size)

\* roiSize: imelSize times the product of (size + sampling - 1) / sampling
RECURSIVE RoiSize(_, _, _, _)
RoiSize(imelSize, size, sampling, i) ==
    IF i < 1 THEN imelSize
    ELSE MulSz(RoiSize(imelSize, size, sampling, i - 1),
               SubSz(AddSz(size[i], sampling[i]), 1) \div sampling[i])

\* newLoc: the byte offset of the line at curPos
RECURSIVE SumLoc(_, _, _)
SumLoc(h, curPos, i) ==
    IF i < 1 THEN 0
    ELSE AddSz(SumLoc(h, curPos, i - 1), MulSz(curPos[i], RoiStride(h, i)))

NewLoc(h, curPos, imelSize) == MulSz(SumLoc(h, curPos, h.Dimensions), imelSize)

\* the step to the next line: dimensions 1 .. p-1 of the code, the first
\* running fastest. [done, curPos]
RECURSIVE NextLine(_, _, _)
NextLine(c, curPos, i) ==
    IF i > c.p THEN [done |-> TRUE, curPos |-> curPos]
    ELSE LET v == AddSz(curPos[i], c.sampling[i])
         IN  IF v < AddSz(c.offset[i], c.size[i])
             THEN [done |-> FALSE, curPos |-> [curPos EXCEPT ![i] = v]]
             ELSE NextLine(c, [curPos EXCEPT ![i] = c.offset[i]], i + 1)

\* the bytes memcpy(dest, buf + i * imelSize, imelSize) copies, i being the
\* dimension count the loop over the dimensions left in it: the imel at
\* index p of the line, or, past the end of the line buffer, whatever the
\* heap holds there
ImelAtP(c, buf) ==
    [k \in 1..c.imelSize |->
        IF c.p * c.imelSize + k <= Len(buf) THEN buf[c.p * c.imelSize + k]
        ELSE c.garbage]

\* for (j = 0; j < size[0]; j += sampling[0]) memcpy(...): the bytes one
\* line adds to dest
RECURSIVE SampleLine(_, _, _)
SampleLine(c, buf, j) ==
    IF ~(j < c.size[1]) THEN <<>>
    ELSE ImelAtP(c, buf) \o SampleLine(c, buf, AddSz(j, c.sampling[1]))

\* the while (1) loop of IcsGetROIData from the line at st.curPos on;
\* c holds what the loop does not change, st = [curPos, curLoc, pos, out,
\* trace]. [error, out, pos, trace]
RECURSIVE RoiLoop(_, _)
RoiLoop(c, st) ==
    LET newLoc == NewLoc(c.h, st.curPos, c.imelSize)
        skips == st.curLoc < newLoc
        AfterRead(sk) ==
           LET curLoc == IF skips THEN newLoc ELSE st.curLoc
               trace1 == IF skips
                         THEN Append(st.trace,
                                     [op |-> "skip", n |-> SubSz(newLoc, st.curLoc),
                                      newLoc |-> newLoc, curLoc |-> st.curLoc,
                                      curPos |-> [i \in 1..c.p |-> st.curPos[i]]])
                         ELSE st.trace
               Rest(rd) ==
                  LET trace2 == Append(trace1,
                                       [op |-> "read", n |-> c.bufSize,
                                        newLoc |-> newLoc, curLoc |-> st.curLoc,
                                        curPos |-> [i \in 1..c.p |-> st.curPos[i]]])
                      nl == NextLine(c, st.curPos, 2)
                      out == IF c.direct THEN st.out \o rd.out
                             ELSE st.out \o SampleLine(c, rd.out, 0)
                  IN  IF rd.error # "Ok"
                      THEN [error |-> rd.error,
                            out |-> IF c.direct THEN st.out \o rd.out ELSE st.out,
                            pos |-> rd.pos, trace |-> trace2]
                      ELSE IF nl.done
                      THEN [error |-> "Ok", out |-> out, pos |-> rd.pos, trace |-> trace2]
                      ELSE At(LAMBDA st2 : RoiLoop(c, st2),
                              [curPos |-> nl.curPos, curLoc |-> AddSz(curLoc, c.bufSize),
                               pos |-> rd.pos, out |-> out, trace |-> trace2])
           IN  IF sk.error # "Ok"
               THEN [error |-> sk.error, out |-> st.out, pos |-> sk.pos, trace |-> trace1]
               ELSE At(Rest, ReadIdsBlock(c.h, c.r, sk.pos, c.bufSize))
    IN  At(AfterRead, IF skips THEN SkipIdsBlock(st.pos, SubSz(newLoc, st.curLoc))
                      ELSE [error |-> "Ok", pos |-> st.pos])

\* what IcsGetROIData returns before it opens the body
RoiRefused(r, e) ==
    [error |-> e, out |-> <<>>, opened |-> FALSE, br |-> r.br, trace |-> <<>>]

\* IcsGetROIData(ics, offsetPtr, sizePtr, samplingPtr, destPtr, n) on handle h
\* and body r; a = [offsetPtr, sizePtr, samplingPtr, dest, n] and the
\* environment's part: mallocOk (the line buffer) and garbage (a byte read
\* outside the line buffer). [error, out, opened, br, trace]
GetROIData(h, r, a, mallocOk, garbage) ==
    LET p == h.Dimensions
        offset == IF ~a.offsetPtr.null THEN a.offsetPtr.v ELSE [i \in 1..p |-> 0]
        size == IF ~a.sizePtr.null THEN a.sizePtr.v
                ELSE [i \in 1..p |-> SubSz(h.Dim[i].Size, offset[i])]
        sampling == IF ~a.samplingPtr.null THEN a.samplingPtr.v ELSE [i \in 1..p |-> 1]
        imelSize == IcsGetBytesPerSample(h)
        roiSize == RoiSize(imelSize, size, sampling, p)
        sizeConflict == a.n # roiSize
        bufSize == MulSz(imelSize, size[1])
        c == [h |-> h, r |-> r, p |-> p, offset |-> offset, size |-> size,
              sampling |-> sampling, imelSize |-> imelSize, bufSize |-> bufSize,
              direct |-> ~(sampling[1] > 1), garbage |-> garbage]
        st == [curPos |-> offset, curLoc |-> 0, pos |-> 0, out |-> <<>>, trace |-> <<>>]
        Closed(res) ==
           [error |-> IF res.error = "Ok" /\ sizeConflict THEN "OutputNotFilled"
                      ELSE res.error,
            out |-> res.out, opened |-> TRUE, br |-> BrIdle, trace |-> res.trace]
    IN  IF ~ICS_FM_RD(h) THEN RoiRefused(r, "NotValidAction")
        ELSE IF a.n = 0 \/ ~a.dest THEN RoiRefused(r, "Ok")
        ELSE IF \E i \in 1..p : \/ sampling[i] < 1
                                \/ AddSz(offset[i], size[i]) > h.Dim[i].Size
        THEN RoiRefused(r, "IllegalROI")
        ELSE IF a.n < roiSize THEN RoiRefused(r, "BufferTooSmall")
        ELSE IF sampling[1] > 1 /\ (~mallocOk \/ 2 * bufSize >= SizeMod)
        THEN [error |-> "Alloc", out |-> <<>>, opened |-> TRUE,
              br |-> [open |-> TRUE, pos |-> 0], trace |-> <<>>]
        ELSE At(LAMBDA cc : At(Closed, RoiLoop(cc, st)), c)

\* IcsGetData on the uncompressed body: IcsReadIds opens the body (closing a
\* read in flight), reads n bytes and closes it. [error, out, br]
GetDataPlain(h, r, n) ==
    IF ~ICS_FM_RD(h) THEN [error |-> "NotValidAction", out |-> <<>>, br |-> r.br]
    ELSE IF n = 0 THEN [error |-> "Ok", out |-> <<>>, br |-> r.br]
    ELSE At(LAMBDA rd : [error |-> rd.error, out |-> rd.out, br |-> BrIdle],
            ReadIdsBlock(h, r, 0, n))

\* IcsGetDataBlock on the uncompressed body: the body is opened when no read
\* is in flight, and stays open
GetDataBlockPlain(h, r, n) ==
    IF ~ICS_FM_RD(h) THEN [error |-> "NotValidAction", out |-> <<>>, br |-> r.br]
    ELSE IF n = 0 THEN [error |-> "Ok", out |-> <<>>, br |-> r.br]
    ELSE At(LAMBDA rd : [error |-> rd.error, out |-> rd.out,
                         br |-> [open |-> TRUE, pos |-> rd.pos]],
            ReadIdsBlock(h, r, IF r.br.open THEN r.br.pos ELSE 0, n))

\* IcsSkipDataBlock on the uncompressed body
SkipDataBlockPlain(h, r, n) ==
    IF ~ICS_FM_RD(h) THEN [error |-> "NotValidAction", out |-> <<>>, br |-> r.br]
    ELSE IF n = 0 THEN [error |-> "Ok", out |-> <<>>, br |-> r.br]
    ELSE At(LAMBDA sk : [error |-> sk.error, out |-> <<>>,
                         br |-> [open |-> TRUE, pos |-> sk.pos]],
            SkipIdsBlock(IF r.br.open THEN r.br.pos ELSE 0, n))

\* out - dest at the head of the loop of IcsGetDataWithStrides: the sum over
\* the dimensions past the first of curPos[i] * stride[i] * imelSize
RECURSIVE LineOut(_, _, _, _)
LineOut(curPos, stride, imelSize, i) ==
    IF i < 2 THEN 0
    ELSE LineOut(curPos, stride, imelSize, i - 1)
            + MulSz(MulSz(curPos[i], stride[i]), imelSize)

\* the step of IcsGetDataWithStrides to the next line of the image.
\* [done, curPos]
RECURSIVE StridesNextLine(_, _, _)
StridesNextLine(h, curPos, i) ==
    IF i > h.Dimensions THEN [done |-> TRUE, curPos |-> curPos]
    ELSE LET v == AddSz(curPos[i], 1)
         IN  IF v < h.Dim[i].Size
             THEN [done |-> FALSE, curPos |-> [curPos EXCEPT ![i] = v]]
             ELSE StridesNextLine(h, [curPos EXCEPT ![i] = 0], i + 1)

\* the bytes of dest one line writes, as [addr, val] with addr counted from
\* dest: what the read put at out (stride[0] <= 1), or the imels of the line
\* buffer, stride[0] * imelSize bytes apart, when the line was read
LineWrites(c, out, got, ok) ==
    IF c.direct
    THEN {[addr |-> out + k - 1, val |-> got[k]] : k \in 1..Len(got)}
    ELSE IF ~ok THEN {}
    ELSE {[addr |-> out + MulSz(c.stride[1], c.imelSize) * j + b - 1,
           val |-> got[j * c.imelSize + b]] :
             j \in 0..(c.h.Dim[1].Size - 1), b \in 1..c.imelSize}

\* the while (1) loops of IcsGetDataWithStrides from the line at curPos on.
\* [error, writes]
RECURSIVE StridesLoop(_, _, _, _)
StridesLoop(c, curPos, pos, writes) ==
    LET out == LineOut(curPos, c.stride, c.imelSize, c.h.Dimensions)
        Rest(rd) ==
           LET new == LineWrites(c, out, rd.out, rd.error = "Ok")
               w == {x \in writes : \A y \in new : y.addr # x.addr} \cup new
               nl == StridesNextLine(c.h, curPos, 2)
           IN  IF rd.error # "Ok" THEN [error |-> rd.error, writes |-> w]
               ELSE IF nl.done THEN [error |-> "Ok", writes |-> w]
               ELSE StridesLoop(c, nl.curPos, rd.pos, w)
    IN  At(Rest, ReadIdsBlock(c.h, c.r, pos, c.bufSize))

\* IcsGetDataWithStrides(ics, destPtr, n, stridePtr, nDims) on handle h and
\* body r; a = [dest, n, stridePtr, nDims]; mallocOk is the environment's
\* answer for the line buffer. [error, writes, opened, br]
GetDataWithStrides(h, r, a, mallocOk) ==
    LET p == h.Dimensions
        stride == IF ~a.stridePtr.null THEN a.stridePtr.v
                  ELSE [i \in 1..p |-> RoiStride(h, i)]
        imelSize == IcsGetBytesPerSample(h)
        lastpixel == LastPixel(h, stride, p)
        c == [h |-> h, r |-> r, stride |-> stride, imelSize |-> imelSize,
              bufSize |-> MulSz(imelSize, h.Dim[1].Size),
              direct |-> ~(stride[1] > 1)]
        Refused(e) == [error |-> e, writes |-> {}, opened |-> FALSE, br |-> r.br]
        Closed(res) == [error |-> res.error, writes |-> res.writes,
                        opened |-> TRUE, br |-> BrIdle]
    IN  IF ~ICS_FM_RD(h) THEN Refused("NotValidAction")
        ELSE IF a.n = 0 \/ ~a.dest THEN Refused("Ok")
        ELSE IF a.nDims # p THEN Refused("IllParameter")
        ELSE IF MulSz(lastpixel, imelSize) > a.n THEN Refused("IllParameter")
        ELSE IF stride[1] > 1 /\ ~mallocOk
        THEN [error |-> "Alloc", writes |-> {}, opened |-> TRUE,
              br |-> [open |-> TRUE, pos |-> 0]]
        ELSE At(LAMBDA cc : At(Closed, StridesLoop(cc, [i \in 1..p |-> 0], 0, {})), c)

\* the arguments of a call, as the claims read them: the offsets, sizes and
\* samplings in effect (the defaults filled in), as integers
EffOffset(h, a) ==
    IF a.offsetPtr.null THEN [i \in 1..h.Dimensions |-> 0] ELSE a.offsetPtr.v

EffSize(h, a) ==
    IF a.sizePtr.null
    THEN [i \in 1..h.Dimensions |-> h.Dim[i].Size - EffOffset(h, a)[i]]
    ELSE a.sizePtr.v

EffSampling(h, a) ==
    IF a.samplingPtr.null THEN [i \in 1..h.Dimensions |-> 1] ELSE a.samplingPtr.v

\* the region lies in the image and every sampling step is at least 1
ValidROI(h, a) ==
    \A i \in 1..h.Dimensions :
       /\ EffSampling(h, a)[i] >= 1
       /\ EffOffset(h, a)[i] <= h.Dim[i].Size
       /\ EffOffset(h, a)[i] + EffSize(h, a)[i] <= h.Dim[i].Size

CeilDiv(x, y) == (x + y - 1) \div y

RECURSIVE ProdCeil(_, _, _)
ProdCeil(size, sampling, i) ==
    IF i < 1 THEN 1
    ELSE ProdCeil(size, sampling, i - 1) * CeilDiv(size[i], sampling[i])

\* width times the product of ceil(size_i / sampling_i), for a valid region
Expected(h, a) ==
    IF ValidROI(h, a)
    THEN IcsGetBytesPerSample(h) * ProdCeil(EffSize(h, a), EffSampling(h, a), h.Dimensions)
    ELSE 0

\* the arguments a caller hands to IcsGetROIData
RoiOffsets == {NullVec} \cup {Vec(<<x, y>>) : x \in {0, 1, 5}, y \in {0, 1}}
RoiSizes == {NullVec} \cup {Vec(<<x, y>>) : x \in {2, 4, SizeMod - 1}, y \in {0, 1, 3}}
RoiSamplings == {NullVec} \cup {Vec(<<x, y>>) : x \in {0, 1, 2}, y \in {1, 2, SizeMod - 1}}

\* the buffer lengths: none, one byte, around the expected size, a large one
RoiLengths(h, a) ==
    {n \in 0..(SizeMod - 1) :
       \/ n \in {0, 1, SizeMod - 1}
       \/ n \in {Expected(h, a) - 1, Expected(h, a), Expected(h, a) + 1}}

\* what a byte outside the line buffer may hold
Garbage == {170, 255}

\* the environment's choices that a call can meet: the line buffer is only
\* allocated, and read, when sampling[0] > 1
Subsampled(samplingPtr) == ~samplingPtr.null /\ samplingPtr.v[1] > 1
MallocChoices(samplingPtr) == IF Subsampled(samplingPtr) THEN BOOLEAN ELSE {TRUE}
GarbageChoices(samplingPtr) ==
    IF Subsampled(samplingPtr) THEN Garbage ELSE {CHOOSE g \in Garbage : TRUE}

NoArgs == [offsetPtr |-> NullVec, sizePtr |-> NullVec, samplingPtr |-> NullVec,
           dest |-> TRUE, n |-> 0]

RoiCall(op, a, res, opened, trace) ==
    [op |-> op, a |-> a, error |-> res.error, out |-> res.out, opened |-> opened,
     trace |-> trace]

Others4 == <<oCall, ics, last, fs, upd, closeRes, zip, zret, lzw, bo, wr>>

\* IcsGetROIData, once in a behaviour
IcsGetROIData ==
    /\ ~roi.roiDone
    /\ \E offsetPtr \in RoiOffsets, sizePtr \in RoiSizes, samplingPtr \in RoiSamplings,
          dest \in BOOLEAN :
          \E a0 \in {[offsetPtr |-> offsetPtr, sizePtr |-> sizePtr,
                       samplingPtr |-> samplingPtr, dest |-> dest, n |-> 0]} :
             \E n \in RoiLengths(ics, a0), mallocOk \in MallocChoices(samplingPtr),
                garbage \in GarbageChoices(samplingPtr) :
                /\ ~dest => n = SizeMod - 1
                /\ \E res \in {GetROIData(ics, roi, [a0 EXCEPT !.n = n], mallocOk,
                                           garbage)} :
                      roi' = [roi EXCEPT !.br = res.br, !.roiDone = TRUE,
                                         !.call = RoiCall("IcsGetROIData",
                                                          [a0 EXCEPT !.n = n], res,
                                                          res.opened, res.trace)]
    /\ UNCHANGED Others4

\* IcsGetData on the uncompressed body
IcsGetDataPlain ==
    /\ \E n \in {0, IcsGetDataSize(ics) - 1, IcsGetDataSize(ics)} :
          \E res \in {GetDataPlain(ics, roi, n)} :
             roi' = [roi EXCEPT !.br = res.br,
                                !.call = RoiCall("IcsGetData", [NoArgs EXCEPT !.n = n],
                                                 res, n # 0, <<>>)]
    /\ UNCHANGED Others4

\* IcsGetDataBlock on the uncompressed body, by lines of the image
IcsGetDataBlockPlain ==
    /\ roi.br.pos < Len(roi.file)
    /\ \E n \in {IcsGetBytesPerSample(ics) * ics.Dim[1].Size} :
          \E res \in {GetDataBlockPlain(ics, roi, n)} :
             roi' = [roi EXCEPT !.br = res.br,
                                !.call = RoiCall("IcsGetDataBlock",
                                                 [NoArgs EXCEPT !.n = n], res,
                                                 n # 0, <<>>)]
    /\ UNCHANGED Others4

\* IcsSkipDataBlock on the uncompressed body
IcsSkipDataBlockPlain ==
    /\ roi.br.pos < Len(roi.file)
    /\ \E n \in {IcsGetBytesPerSample(ics) * ics.Dim[1].Size} :
          \E res \in {SkipDataBlockPlain(ics, roi, n)} :
             roi' = [roi EXCEPT !.br = res.br,
                                !.call = RoiCall("IcsSkipDataBlock",
                                                 [NoArgs EXCEPT !.n = n], res,
                                                 n # 0, <<>>)]
    /\ UNCHANGED Others4

\* the strides a caller hands to IcsGetDataWithStrides
StrideChoices == {NullVec} \cup {Vec(<<x, y>>) : x \in {0, 1, 2}, y \in {0, 4, 5}}

\* the bytes a buffer needs to hold the last pixel in full, when the strides
\* do not wrap around
StridesNeed(h, stridePtr) ==
    LET stride == IF ~stridePtr.null THEN stridePtr.v
                  ELSE [i \in 1..h.Dimensions |-> RoiStride(h, i)]
    IN  (LastPixel(h, stride, h.Dimensions) + 1) * IcsGetBytesPerSample(h)

\* the buffer lengths: none, one byte, around what the last pixel needs
StridesLengths(h, stridePtr) ==
    {n \in 0..(SizeMod - 1) :
       \/ n \in {0, 1}
       \/ \E d \in 0..(IcsGetBytesPerSample(h) + 1) :
             n + d = StridesNeed(h, stridePtr) + 1}

\* the call of IcsGetDataWithStrides, as the claims read it
WsIdle == [stridePtr |-> NullVec, nDims |-> 0, writes |-> {}]

\* IcsGetDataWithStrides, in place of the IcsGetROIData of a behaviour
IcsGetDataWithStrides ==
    /\ ~roi.roiDone
    /\ \E stridePtr \in StrideChoices, nDims \in {1, 2}, dest \in BOOLEAN :
          \E n \in StridesLengths(ics, stridePtr),
             mallocOk \in MallocChoices(stridePtr) :
             /\ ~dest => n = 1
             /\ \E res \in {GetDataWithStrides(ics, roi,
                                   [dest |-> dest, n |-> n, stridePtr |-> stridePtr,
                                    nDims |-> nDims], mallocOk)} :
                   roi' = [roi EXCEPT
                             !.br = res.br, !.roiDone = TRUE,
                             !.ws = [stridePtr |-> stridePtr, nDims |-> nDims,
                                     writes |-> res.writes],
                             !.call = RoiCall("IcsGetDataWithStrides",
                                              [NoArgs EXCEPT !.n = n, !.dest = dest],
                                              [error |-> res.error, out |-> <<>>],
                                              res.opened, <<>>)]
    /\ UNCHANGED Others4

\* the handle IcsOpen(.., "r") leaves on a 4 x 3 image of 16-bit samples
RoiHandle ==
    [NewHandle("read", 2) EXCEPT
        !.Dimensions = 2,
        !.DataType = "Ics_uint16",
        !.SrcFile = "image.ids",
        !.Dim = [i \in DimIdx |->
                   [EmptyDim EXCEPT !.Size = IF i = 1 THEN 4 ELSE 3,
                                    !.Order = DefaultOrder(i),
                                    !.Label = DefaultLabel(i)]]]

\* the image's body: byte k of the file holds the value k; the file may
\* miss its last bytes; the machine's byte order may differ from the file's
InitROI ==
    /\ oCall = OpenIdle
    /\ lzw = LzwIdle
    /\ bo = BoIdle /\ wr = WrIdle
    /\ ics = RoiHandle
    /\ last = LastIdle
    /\ fs = FsIdle /\ upd = UpdIdle /\ closeRes = CloseIdle
    /\ zip = ZipIdle /\ zret = ZretIdle
    /\ \E le \in BOOLEAN, missing \in {0, 3} :
          /\ missing # 0 => le
          /\ roi = [file |-> [k \in 1..(IcsGetDataSize(RoiHandle) - missing) |-> k - 1],
                    ByteOrder |-> <<1, 2>>, littleEndian |-> le,
                    br |-> BrIdle, roiDone |-> FALSE, ws |-> WsIdle,
                    call |-> RoiCall("none", NoArgs, [error |-> "Ok", out |-> <<>>],
                                     FALSE, <<>>)]

NextROI ==
    \/ IcsGetROIData
    \/ IcsGetDataWithStrides
    \/ IcsGetDataPlain
    \/ IcsGetDataBlockPlain
    \/ IcsSkipDataBlockPlain

SpecROI == InitROI /\ [][NextROI]_vars

(***************************************************************************)
(* Claims on IcsGetROIData (SpecROI).                                      *)
(***************************************************************************)
\* the indices from x in steps of step that lie below bound
RECURSIVE Steps(_, _, _)
Steps(x, bound, step) ==
    IF x >= bound THEN <<>> ELSE <<x>> \o Steps(x + step, bound, step)

RECURSIVE Flat(_)
Flat(ss) == IF ss = <<>> THEN <<>> ELSE Head(ss) \o Flat(Tail(ss))

\* the output of IcsGetData for the whole image
FullData == GetDataPlain(ics, roi, IcsGetDataSize(ics)).out

\* the bytes of the region gathered from the whole image full: for every
\* line of the region in row-major order, the samples at offset[0],
\* offset[0] + sampling[0], ... below offset[0] + size[0]
Gather(full, h, a) ==
    LET off == EffOffset(h, a)
        size == EffSize(h, a)
        samp == EffSampling(h, a)
        w == IcsGetBytesPerSample(h)
        xs == Steps(off[1], off[1] + size[1], samp[1])
        ys == IF h.Dimensions >= 2 THEN Steps(off[2], off[2] + size[2], samp[2])
              ELSE <<0>>
        Imel(x, y) == SubSeq(full, (y * h.Dim[1].Size + x) * w + 1,
                             (y * h.Dim[1].Size + x) * w + w)
        Line(y) == Flat([k \in 1..Len(xs) |-> Imel(xs[k], y)])
    IN  Flat([k \in 1..Len(ys) |-> Line(ys[k])])

\* an IcsGetROIData call for a valid region on a complete body, with a
\* buffer that holds the region, that did not fail to allocate
RoiServed ==
    /\ roi.call.op = "IcsGetROIData"
    /\ roi.call.a.dest
    /\ Len(roi.file) = IcsGetDataSize(ics)
    /\ ValidROI(ics, roi.call.a)
    /\ \A i \in 1..ics.Dimensions : EffSize(ics, roi.call.a)[i] >= 1
    /\ roi.call.a.n >= Expected(ics, roi.call.a)
    /\ roi.call.error # "Alloc"

\* C4 as stated: with sampling[0] > 1 IcsGetROIData delivers, for every line
\* of the region, every sampling[0]-th sample of the line from its first:
\* the bytes gathered from the output of IcsGetData.
C4_Claim ==
    (RoiServed /\ EffSampling(ics, roi.call.a)[1] > 1)
       => /\ roi.call.error \in {"Ok", "OutputNotFilled"}
          /\ roi.call.out = Gather(FullData, ics, roi.call.a)

\* C5 as stated: with sampling[0] = 1 IcsGetROIData delivers the bytes
\* gathered from the output of IcsGetData: for every outer index, stepping
\* by sampling[i] from offset[i] below offset[i] + size[i], the size[0]
\* samples of the line from offset[0] on.
C5_Claim ==
    (RoiServed /\ EffSampling(ics, roi.call.a)[1] = 1)
       => /\ roi.call.error \in {"Ok", "OutputNotFilled"}
          /\ roi.call.out = Gather(FullData, ics, roi.call.a)

\* no sum offset[i] + size[i] + sampling[i] of the call leaves size_t
RoiNoWrap ==
    \A i \in 1..ics.Dimensions :
       EffOffset(ics, roi.call.a)[i] + EffSize(ics, roi.call.a)[i]
          + EffSampling(ics, roi.call.a)[i] < SizeMod

\* C5 where nothing wraps around: the line-by-line read of the region is
\* the gather from the whole image
RoiDirectEquivalence ==
    (RoiServed /\ RoiNoWrap /\ EffSampling(ics, roi.call.a)[1] = 1)
       => /\ roi.call.error \in {"Ok", "OutputNotFilled"}
          /\ roi.call.out = Gather(FullData, ics, roi.call.a)

\* C6 as stated, for a call that asks for bytes: IcsGetROIData returns
\* IllegalROI, and does not open the body, when some sampling step is below
\* 1, some offset[i] + size[i] exceeds the dimension, or some offset[i]
\* exceeds it with the size left to its default.
C6_Claim ==
    (/\ roi.call.op = "IcsGetROIData"
     /\ roi.call.a.dest /\ roi.call.a.n > 0
     /\ ~ValidROI(ics, roi.call.a))
       => /\ roi.call.error = "IllegalROI"
          /\ ~roi.call.opened

\* C7 as stated, for a call that asks for bytes: for a valid region
\* IcsGetROIData returns BufferTooSmall without a read when n is below the
\* expected size; reads and returns OutputNotFilled (or the read's error) when
\* n is above it; reads and returns Ok (or the read's error) when n is the
\* expected size.
C7_Claim ==
    (/\ roi.call.op = "IcsGetROIData"
     /\ roi.call.a.dest /\ roi.call.a.n > 0
     /\ ValidROI(ics, roi.call.a))
       => LET n == roi.call.a.n
              e == Expected(ics, roi.call.a)
          IN  /\ n < e => (roi.call.error = "BufferTooSmall" /\ ~roi.call.opened)
              /\ n > e => /\ roi.call.opened
                          /\ roi.call.error \notin {"Ok", "BufferTooSmall", "IllegalROI"}
              /\ n = e => /\ roi.call.opened
                          /\ roi.call.error \notin {"OutputNotFilled", "BufferTooSmall",
                                                    "IllegalROI"}

\* an IcsGetROIData call that got past the validation of the region and
\* the test of the buffer size, and opened the body
RoiProceeded ==
    /\ roi.call.op = "IcsGetROIData"
    /\ roi.call.opened
    /\ roi.call.error # "Alloc"

\* C26 as stated: whenever IcsGetROIData proceeds past validation and the
\* buffer-size check, it writes no more than n bytes into the caller's
\* buffer, and when all reads succeed the bytes written are the expected
\* width * product of ceil(size_i / sampling_i); also for a region where
\* some size_i is 0.
C26_Claim ==
    RoiProceeded =>
       /\ Len(roi.call.out) <= roi.call.a.n
       /\ roi.call.error \in {"Ok", "OutputNotFilled"}
             => Len(roi.call.out) = Expected(ics, roi.call.a)

\* the lines IcsGetROIData read, in the order of the reads
RoiReads == SelectSeq(roi.call.trace, LAMBDA t : t.op = "read")

\* C29 as stated: during IcsGetROIData on a validated region, for every
\* line visited the line start newLoc is at or behind the stream position
\* curLoc (only forward skips are issued), the line starts are visited in
\* strictly increasing order, and each outer index tuple is visited once.
C29_Claim ==
    RoiProceeded =>
       /\ \A k \in 1..Len(RoiReads) : RoiReads[k].newLoc >= RoiReads[k].curLoc
       /\ \A k \in 1..(Len(RoiReads) - 1) : RoiReads[k].newLoc < RoiReads[k + 1].newLoc
       /\ \A j, k \in 1..Len(RoiReads) :
             j # k => RoiReads[j].curPos # RoiReads[k].curPos

\* C27 as stated: IcsGetDataWithStrides writes no byte outside dest[0 .. n);
\* a call that returns IllParameter has read and written nothing.
C27_Claim ==
    roi.call.op = "IcsGetDataWithStrides" =>
       /\ \A w \in roi.ws.writes : w.addr < roi.call.a.n
       /\ roi.call.error = "IllParameter" =>
             (~roi.call.opened /\ roi.ws.writes = {})

\* C21 as stated, for the uncompressed body: after every return of IcsGetData,
\* IcsGetROIData and IcsGetDataWithStrides that got past the validation of
\* its arguments (the call opened the body) BlockRead is null again.
C21_Claim ==
    (/\ roi.call.op \in {"IcsGetData", "IcsGetROIData", "IcsGetDataWithStrides"}
     /\ roi.call.opened)
       => ~roi.br.open

(***************************************************************************)
(* The block calls on a gzip body against those on an uncompressed body    *)
(* (SpecZip).                                                              *)
(***************************************************************************)
\* the uncompressed body that holds the bytes of the gzip body, read as the
\* one-byte samples of the gzip handle
PlainOfZip == [file |-> zip.body, ByteOrder |-> ZipByteOrder, littleEndian |-> TRUE]
PlainHandle == [ics EXCEPT !.DataType = "Ics_uint8"]

\* the last call was a block call that asked for bytes and, with the block
\* calls before it, stays within the body
ZipBlockWithin ==
    /\ zip.hdrOk
    /\ zret.op \in {"IcsGetDataBlock", "IcsSkipDataBlock"}
    /\ zret.n > 0
    /\ zret.asked <= Len(zip.body)

MaxLzwCalls == 3

\* the bytes the body decompresses to
LzwBody == <<7, 8>>

\* BlockRead of the handle: a null pointer, or the Ics_BlockRead IcsOpenIds
\* leaves for a compress body
NoBlockRead == [open |-> FALSE, CompressRead |-> 0]
NewBlockRead == [open |-> TRUE, CompressRead |-> 0]

\* what malloc, fopen and fseek do to IcsOpenIds: all succeed, or the first
\* that fails decides the error
OpenOutcomes == {"ok", "Alloc", "FOpenIds", "FReadIds"}

\* what fclose does to IcsCloseIds
CloseOutcomes == {"Ok", "FCloseIds"}

\* what IcsReadCompress returns
ReadCompressOutcomes == {"Ok", "CorruptedStream"}

\* IcsCloseIds on a compress body (there is no zlib stream to end)
CloseIdsLzw(h, closeErr) == [error |-> closeErr, h |-> [h EXCEPT !.br = NoBlockRead]]

\* IcsOpenIds on handle h. For version 1 the body is Filename.ids, or
\* Filename.ids.Z, which selects the compress codec (found: which one exists);
\* for version 2 it is SrcFile.
OpenIdsLzw(h, outcome, closeErr) ==
    LET c == IF h.br.open THEN CloseIdsLzw(h, closeErr)
             ELSE [error |-> "Ok", h |-> h]
        g == IF c.h.Version = 1 /\ c.h.found = "Z"
             THEN [c.h EXCEPT !.Compression = "compress"] ELSE c.h
    IN  IF c.error # "Ok" THEN c
        ELSE IF c.h.Version = 1 /\ c.h.found = "none"
        THEN [error |-> "FOpenIds", h |-> c.h]
        ELSE IF c.h.Version # 1 /\ c.h.SrcFile = ""
        THEN [error |-> "MissingData", h |-> c.h]
        ELSE IF outcome # "ok" THEN [error |-> outcome, h |-> g]
        ELSE [error |-> "Ok", h |-> [g EXCEPT !.br = NewBlockRead]]

\* IcsReadCompress: one call decompresses the body into dest
IcsReadCompress(n, rcErr) ==
    [error |-> rcErr,
     out |-> IF rcErr = "Ok" THEN SubSeq(LzwBody, 1, Min(n, Len(LzwBody))) ELSE <<>>]

\* the mutant of ReadIdsBlockLzw: CompressRead is not set
ReadIdsBlockLzwNoFlag(h, n, rcErr) ==
    IF h.Compression # "compress"
    THEN [error |-> "UnknownCompression", out |-> <<>>, h |-> h, read |-> FALSE]
    ELSE IF h.br.CompressRead # 0
    THEN [error |-> "BlockNotAllowed", out |-> <<>>, h |-> h, read |-> FALSE]
    ELSE LET r == IcsReadCompress(n, rcErr)
             o == IcsReorderIds(r.out, h.ByteOrder, IcsGetBytesPerSample(h), TRUE)
         IN  [error |-> IF r.error # "Ok" THEN r.error ELSE o.error,
              out |-> IF r.error # "Ok" THEN r.out ELSE o.buf,
              h |-> h, read |-> TRUE]

\* IcsReadIdsBlock on a compress body: [error, out, h, read], read telling
\* whether IcsReadCompress was called
ReadIdsBlockLzw(h, n, rcErr) ==
    IF h.Compression # "compress"
    THEN [error |-> "UnknownCompression", out |-> <<>>, h |-> h, read |-> FALSE]
    ELSE IF h.br.CompressRead # 0
    THEN [error |-> "BlockNotAllowed", out |-> <<>>, h |-> h, read |-> FALSE]
    ELSE LET r == IcsReadCompress(n, rcErr)
             o == IcsReorderIds(r.out, h.ByteOrder, IcsGetBytesPerSample(h), TRUE)
         IN  [error |-> IF r.error # "Ok" THEN r.error ELSE o.error,
              out |-> IF r.error # "Ok" THEN r.out ELSE o.buf,
              h |-> [h EXCEPT !.br.CompressRead = 1], read |-> TRUE]

\* IcsSetIdsBlock (and IcsSkipIdsBlock, which calls it) on a compress body
SetIdsBlockLzw(h, offset) ==
    IF h.Compression # "compress" THEN "UnknownCompression" ELSE "BlockNotAllowed"

\* what a call that did not reach the body returns
LzwUntouched(h, error) ==
    [error |-> error, out |-> <<>>, h |-> h, read |-> FALSE, opened |-> FALSE,
     openError |-> "Ok"]

\* IcsGetData: IcsReadIds opens the stream, reads it and closes it
GetDataLzw(h, dest, n, env) ==
    IF ~ICS_FM_RD(h) THEN LzwUntouched(h, "NotValidAction")
    ELSE IF n = 0 \/ ~dest THEN LzwUntouched(h, "Ok")
    ELSE LET o == OpenIdsLzw(h, env.outcome, env.closeErr)
         IN  IF o.error # "Ok"
             THEN [LzwUntouched(o.h, o.error) EXCEPT !.opened = TRUE,
                                                     !.openError = o.error]
             ELSE LET r == ReadIdsBlockLzw(o.h, n, env.rcErr)
                      c == CloseIdsLzw(r.h, env.closeErr2)
                  IN  [error |-> IF r.error # "Ok" THEN r.error ELSE c.error,
                       out |-> r.out, h |-> c.h, read |-> r.read, opened |-> TRUE,
                       openError |-> "Ok"]

\* IcsGetDataBlock: opens the stream when none is open, then reads
GetDataBlockLzw(h, dest, n, env) ==
    IF ~ICS_FM_RD(h) THEN LzwUntouched(h, "NotValidAction")
    ELSE IF n = 0 \/ ~dest THEN LzwUntouched(h, "Ok")
    ELSE LET o == IF ~h.br.open THEN OpenIdsLzw(h, env.outcome, env.closeErr)
                  ELSE [error |-> "Ok", h |-> h]
         IN  IF o.error # "Ok"
             THEN [LzwUntouched(o.h, o.error) EXCEPT !.opened = TRUE,
                                                     !.openError = o.error]
             ELSE LET r == ReadIdsBlockLzw(o.h, n, env.rcErr)
                  IN  [error |-> r.error, out |-> r.out, h |-> r.h, read |-> r.read,
                       opened |-> ~h.br.open, openError |-> "Ok"]

\* IcsSkipDataBlock: opens the stream when none is open, then seeks
SkipDataBlockLzw(h, n, env) ==
    IF ~ICS_FM_RD(h) THEN LzwUntouched(h, "NotValidAction")
    ELSE IF n = 0 THEN LzwUntouched(h, "Ok")
    ELSE LET o == IF ~h.br.open THEN OpenIdsLzw(h, env.outcome, env.closeErr)
                  ELSE [error |-> "Ok", h |-> h]
         IN  IF o.error # "Ok"
             THEN [LzwUntouched(o.h, o.error) EXCEPT !.opened = TRUE,
                                                     !.openError = o.error]
             ELSE [error |-> SetIdsBlockLzw(o.h, n), out |-> <<>>, h |-> o.h,
                   read |-> FALSE, opened |-> ~h.br.open, openError |-> "Ok"]

\* what the environment does during one call
LzwEnvs == [outcome : OpenOutcomes, closeErr : CloseOutcomes,
            closeErr2 : CloseOutcomes, rcErr : ReadCompressOutcomes]

\* the lengths a caller asks for
LzwLengths == 0..Len(LzwBody)

LzwNoCall == [op |-> "none", dest |-> FALSE, n |-> 0, error |-> "Ok", out |-> <<>>,
              preOpen |-> FALSE, preReads |-> 0, read |-> FALSE, opened |-> FALSE,
              openError |-> "Ok"]

\* the state after a call: the handle, the number of IcsGetDataBlock calls
\* that reached IcsReadIdsBlock on the stream now open, and the call's record
LzwAfter(op, dest, n, r) ==
    [h |-> r.h,
     reads |-> IF ~r.h.br.open THEN 0
               ELSE (IF r.opened THEN 0 ELSE lzw.reads)
                    + (IF op = "IcsGetDataBlock" /\ (r.read \/ r.error = "BlockNotAllowed")
                       THEN 1 ELSE 0),
     calls |-> lzw.calls + 1,
     call |-> [op |-> op, dest |-> dest, n |-> n, error |-> r.error, out |-> r.out,
               preOpen |-> lzw.h.br.open, preReads |-> lzw.reads, read |-> r.read,
               opened |-> r.opened, openError |-> r.openError]]

Others5 == <<oCall, ics, last, fs, upd, closeRes, zip, zret, roi, bo, wr>>

IcsGetDataLzw ==
    /\ lzw.calls < MaxLzwCalls
    /\ \E dest \in BOOLEAN, n \in LzwLengths, env \in LzwEnvs :
          lzw' = LzwAfter("IcsGetData", dest, n, GetDataLzw(lzw.h, dest, n, env))
    /\ UNCHANGED Others5

IcsGetDataBlockLzw ==
    /\ lzw.calls < MaxLzwCalls
    /\ \E dest \in BOOLEAN, n \in LzwLengths, env \in LzwEnvs :
          lzw' = LzwAfter("IcsGetDataBlock", dest, n,
                          GetDataBlockLzw(lzw.h, dest, n, env))
    /\ UNCHANGED Others5

IcsSkipDataBlockLzw ==
    /\ lzw.calls < MaxLzwCalls
    /\ \E n \in LzwLengths, env \in LzwEnvs :
          lzw' = LzwAfter("IcsSkipDataBlock", TRUE, n, SkipDataBlockLzw(lzw.h, n, env))
    /\ UNCHANGED Others5

\* a handle as IcsOpen(.., "r") or (.., "rw") leaves it on a header that names
\* the compress codec and samples of one byte: version 1 with Filename.ids,
\* Filename.ids.Z or neither on disk, or version 2 with or without a source
InitLzw ==
    /\ oCall = OpenIdle
    /\ bo = BoIdle /\ wr = WrIdle
    /\ ics = NewHandle("write", 2)
    /\ last = LastIdle
    /\ fs = FsIdle /\ upd = UpdIdle /\ closeRes = CloseIdle
    /\ zip = ZipIdle /\ zret = ZretIdle
    /\ roi = RoiIdle
    /\ \E fm \in {"read", "update"}, v \in {1, 2}, found \in {"ids", "Z", "none"},
          src \in {"", "body.Z"} :
          /\ v = 1 => src = ""
          /\ v = 2 => found = "none"
          /\ lzw = [h |-> [FileMode |-> fm, Version |-> v, found |-> found,
                           SrcFile |-> src, Compression |-> "compress",
                           DataType |-> "Ics_uint8", ByteOrder |-> <<1>>,
                           br |-> NoBlockRead],
                    reads |-> 0, calls |-> 0, call |-> LzwNoCall]

NextLzw ==
    \/ IcsGetDataLzw
    \/ IcsGetDataBlockLzw
    \/ IcsSkipDataBlockLzw

SpecLzw == InitLzw /\ [][NextLzw]_vars

\* the call asks for bytes: n is not 0 and, for a read, dest is not null
LzwAsks == lzw.call.n # 0 /\ lzw.call.dest

\* the call had to open the stream and IcsOpenIds failed
LzwOpenFailed == lzw.call.opened /\ lzw.call.openError # "Ok"

\* C15 as stated: on a compress body, after the first IcsGetDataBlock on an
\* opened stream every further IcsGetDataBlock on that stream returns
\* BlockNotAllowed, and every IcsSkipDataBlock (on a stream that is open or
\* that it can open) returns BlockNotAllowed.
C15_Original ==
    /\ (lzw.call.op = "IcsGetDataBlock" /\ lzw.call.preOpen /\ lzw.call.preReads > 0)
          => lzw.call.error = "BlockNotAllowed"
    /\ (lzw.call.op = "IcsSkipDataBlock" /\ ~LzwOpenFailed)
          => lzw.call.error = "BlockNotAllowed"

\* C15 as amended: on a compress body, a call with n = 0 (or a read with a
\* null dest) returns Ok and touches nothing. Otherwise: after the first
\* IcsGetDataBlock on an opened stream every further IcsGetDataBlock on that
\* stream returns BlockNotAllowed and delivers nothing; IcsSkipDataBlock
\* returns BlockNotAllowed, or the error of IcsOpenIds when it had to open the
\* stream and could not; IcsGetData closes the stream and reads a new one, and
\* the first IcsGetDataBlock on a newly opened stream is served.
C15_Amended ==
    /\ (lzw.call.op = "IcsGetDataBlock" /\ LzwAsks
        /\ lzw.call.preOpen /\ lzw.call.preReads > 0)
          => /\ lzw.call.error = "BlockNotAllowed"
             /\ lzw.call.out = <<>> /\ ~lzw.call.read
    /\ (lzw.call.op = "IcsSkipDataBlock" /\ LzwAsks)
          => lzw.call.error = IF LzwOpenFailed THEN lzw.call.openError
                              ELSE "BlockNotAllowed"
    /\ (lzw.call.op \in {"IcsGetDataBlock", "IcsSkipDataBlock"} /\ ~LzwAsks)
          => /\ lzw.call.error = "Ok"
             /\ (lzw.h.br.open) = lzw.call.preOpen
             /\ lzw.reads = lzw.call.preReads
    /\ (lzw.call.op = "IcsGetDataBlock" /\ LzwAsks /\ ~LzwOpenFailed
        /\ ~(lzw.call.preOpen /\ lzw.call.preReads > 0))
          => lzw.call.read /\ lzw.call.error # "BlockNotAllowed"
    /\ (lzw.call.op = "IcsGetData" /\ LzwAsks)
          => /\ ~lzw.h.br.open
             /\ lzw.call.error # "BlockNotAllowed"
             /\ ~LzwOpenFailed => lzw.call.read

\* a second IcsGetDataBlock on the same stream was refused
C15_Witness ==
    /\ lzw.call.op = "IcsGetDataBlock" /\ LzwAsks
    /\ lzw.call.preOpen /\ lzw.call.preReads > 0
    /\ lzw.call.error = "BlockNotAllowed"

(***************************************************************************)
(* The byte-order rewrite applied to a region (SpecReorder).               *)
(***************************************************************************)
\* the widest sample of the regions rewritten
MaxWidth == 4

\* the sample widths of the data types, up to MaxWidth
ReorderWidths == {IcsGetDataTypeSize(dt) : dt \in DataTypes} \cap 1..MaxWidth

\* the permutations of 1..w
Perms(w) == {p \in [1..w -> 1..w] : \A i, j \in 1..w : p[i] = p[j] => i = j}

\* the byte-order vectors a header declares for samples of w bytes: a
\* permutation of 1..w, or no byte order (zeros)
SrcOrders(w) == Perms(w) \cup {[i \in 1..w |-> 0]}

\* a region of k samples of w bytes, every byte with a value of its own
Region(k, w) == [i \in 1..(k * w) |-> i]

Others6 == <<oCall, ics, last, fs, upd, closeRes, zip, zret, roi, lzw, wr>>

\* one more IcsReorderIds over the region, as after one more block read
IcsReorderIdsAgain ==
    /\ bo.applied < 2
    /\ LET r == IcsReorderIds(bo.buf, bo.srcByteOrder, bo.bytes, bo.littleEndian)
       IN  bo' = [bo EXCEPT !.buf = r.buf, !.error = r.error, !.applied = @ + 1]
    /\ UNCHANGED Others6

InitReorder ==
    /\ oCall = OpenIdle
    /\ lzw = LzwIdle /\ wr = WrIdle
    /\ ics = NewHandle("write", 2)
    /\ last = LastIdle
    /\ fs = FsIdle /\ upd = UpdIdle /\ closeRes = CloseIdle
    /\ zip = ZipIdle /\ zret = ZretIdle
    /\ roi = RoiIdle
    /\ \E w \in ReorderWidths, k \in 1..2, le \in BOOLEAN :
          \E src \in SrcOrders(w) :
             bo = [orig |-> Region(k, w), buf |-> Region(k, w), srcByteOrder |-> src,
                   bytes |-> w, littleEndian |-> le, error |-> "Ok", applied |-> 0]

NextReorder == IcsReorderIdsAgain

SpecReorder == InitReorder /\ [][NextReorder]_vars

IsPerm(src, w) == \A v \in 1..w : \E i \in 1..w : src[i] = v

SelfInverse(src, dst, w) ==
    \A i \in 1..w : \E k \in 1..w : src[k] = dst[i] /\ dst[k] = src[i]

ByteAt(src, idx, garbage) == IF idx < Len(src) THEN src[idx + 1] ELSE garbage

\* the n bytes of src from offset from on
BytesAt(src, from, n, garbage) == [k \in 1..n |-> ByteAt(src, from + k - 1, garbage)]

\* the mutant of LineOffset: the lines are taken to follow one another in
\* the buffer, whatever the strides
RECURSIVE LineOffsetPacked(_, _, _, _)
LineOffsetPacked(curPos, stride, nBytes, i) ==
    IF i < 2 THEN 0
    ELSE LineOffsetPacked(curPos, stride, nBytes, i - 1) + curPos[i] * nBytes

\* data of the writers: the offset in bytes of the line at curPos, the sum
\* over i >= 1 of curPos[i] * stride[i] * nBytes
RECURSIVE LineOffset(_, _, _, _)
LineOffset(curPos, stride, nBytes, i) ==
    IF i < 2 THEN 0
    ELSE LineOffset(curPos, stride, nBytes, i - 1) + curPos[i] * stride[i] * nBytes

\* the samples of one line, gathered one by one with stride[0]
RECURSIVE GatherLine(_, _, _, _, _, _)
GatherLine(src, data, n, step, nBytes, garbage) ==
    IF n = 0 THEN <<>>
    ELSE BytesAt(src, data, nBytes, garbage)
         \o GatherLine(src, data + step * nBytes, n - 1, step, nBytes, garbage)

\* the line at curPos: one block when stride[0] is 1, gathered otherwise
LineAt(src, dim, stride, nBytes, curPos, nDims, garbage) ==
    LET data == LineOffset(curPos, stride, nBytes, nDims)
    IN  IF stride[1] = 1 THEN BytesAt(src, data, dim[1] * nBytes, garbage)
        ELSE GatherLine(src, data, dim[1], stride[1], nBytes, garbage)

\* the N-D loop's step: curPos[i]++ for i = 1, 2, .. until one stays below
\* dim[i]; done when all wrapped to 0
RECURSIVE WriteNextLine(_, _, _, _)
WriteNextLine(curPos, dim, nDims, i) ==
    IF i > nDims THEN [done |-> TRUE, curPos |-> curPos]
    ELSE IF curPos[i] + 1 < dim[i]
    THEN [done |-> FALSE, curPos |-> [curPos EXCEPT ![i] = @ + 1]]
    ELSE WriteNextLine([curPos EXCEPT ![i] = 0], dim, nDims, i + 1)

\* the while (1) loop of IcsWritePlainWithStrides: out is the file so far,
\* calls the fwrite calls made, failAt the call that fails (0: none)
RECURSIVE PlainLines(_, _, _, _, _, _, _, _, _, _)
PlainLines(src, dim, stride, nDims, nBytes, curPos, out, calls, failAt, garbage) ==
    LET line == LineAt(src, dim, stride, nBytes, curPos, nDims, garbage)
        made == IF stride[1] = 1 THEN 1 ELSE dim[1]
        fails == failAt > calls /\ failAt <= calls + made
        written == IF stride[1] = 1 THEN <<>>
                   ELSE SubSeq(line, 1, (failAt - calls - 1) * nBytes)
        nxt == WriteNextLine(curPos, dim, nDims, 2)
    IN  IF fails THEN [error |-> "FWriteIds", out |-> out \o written]
        ELSE IF nxt.done THEN [error |-> "Ok", out |-> out \o line]
        ELSE PlainLines(src, dim, stride, nDims, nBytes, nxt.curPos, out \o line,
                        calls + made, failAt, garbage)

\* IcsWritePlainWithStrides(src, dim, stride, nDims, nBytes, file)
IcsWritePlainWithStrides(src, dim, stride, nDims, nBytes, failAt, garbage) ==
    PlainLines(src, dim, stride, nDims, nBytes, [i \in 1..nDims |-> 0], <<>>, 0,
               failAt, garbage)

\* deflate looks for repeated bytes from this level on
Matches(level) == level >= 4

\* the z_stream after deflateInit2: no byte held back, no code waiting
NewDeflate(level) == [level |-> level, hold |-> <<>>, q |-> <<>>, ended |-> FALSE]

\* deflate takes the input in: a byte is held back until the next one tells
\* whether the two make a match code
RECURSIVE Feed(_, _)
Feed(s, in) ==
    IF in = <<>> THEN s
    ELSE LET b == Head(in)
         IN  IF ~Matches(s.level) THEN Feed([s EXCEPT !.q = Append(@, b)], Tail(in))
             ELSE IF s.hold = <<>> THEN Feed([s EXCEPT !.hold = <<b>>], Tail(in))
             ELSE IF s.hold[1] = b
             THEN Feed([s EXCEPT !.hold = <<>>, !.q = Append(@, RepBase + b)], Tail(in))
             ELSE Feed([s EXCEPT !.hold = <<b>>, !.q = Append(@, s.hold[1])], Tail(in))

\* deflate(stream, flush) with input in and availOut bytes of output space:
\* [s, out, err]. All input is taken; Z_FINISH adds the byte held back and
\* the end code; the codes that do not fit wait in the stream.
deflate(s, in, availOut, flush) ==
    LET fed == Feed(s, in)
        fin == IF flush = "Z_FINISH" /\ ~fed.ended
               THEN [fed EXCEPT !.q = @ \o fed.hold \o <<EndCode>>, !.hold = <<>>,
                                !.ended = TRUE]
               ELSE fed
        k == Min(availOut, Len(fin.q))
        rest == SubSeq(fin.q, k + 1, Len(fin.q))
    IN  [s |-> [fin EXCEPT !.q = rest], out |-> SubSeq(fin.q, 1, k),
         err |-> IF fin.ended /\ rest = <<>> THEN "Z_STREAM_END"
                 ELSE IF in = <<>> /\ k = 0 THEN "Z_BUF_ERROR" ELSE "Z_OK"]

\* the ten bytes of the gzip header the writers print: the magic bytes,
\* Z_DEFLATED, the flags, six bytes of time, xflags and OS code
Z_DEFLATED == 8
GzHeader == <<31, 139, Z_DEFLATED, 0, 0, 0, 0, 0, 0, 3>>

\* what goes wrong in a gzip writer: the malloc of a buffer, deflateInit2
\* (the zlib version, or anything else), the first fwrite of compressed data
ZipFaults == {"none", "malloc", "version", "init", "fwrite"}

\* the inner do loop of IcsWriteZip: deflate into outBuf and fwrite it, until
\* a call leaves room in outBuf
RECURSIVE ZipWriteInner(_, _, _, _)
ZipWriteInner(s, in, flush, file) ==
    LET Rest(r) ==
           IF Len(r.out) = ICS_BUF_SIZE
           THEN ZipWriteInner(r.s, <<>>, flush, file \o r.out)
           ELSE [s |-> r.s, file |-> file \o r.out]
    IN  At(Rest, deflate(s, in, ICS_BUF_SIZE, flush))

\* the outer do loop of IcsWriteZip over blocks of ICS_BUF_SIZE input bytes
RECURSIVE ZipWriteOuter(_, _, _, _, _, _)
ZipWriteOuter(s, inBuf, len, totalCount, crc, file) ==
    LET availIn == IF len - totalCount < ICS_BUF_SIZE THEN len - totalCount
                   ELSE ICS_BUF_SIZE
        in == SubSeq(inBuf, totalCount + 1, totalCount + availIn)
        total == totalCount + availIn
        flush == IF total >= len THEN "Z_FINISH" ELSE "Z_NO_FLUSH"
        Rest(r) ==
           IF flush # "Z_FINISH"
           THEN ZipWriteOuter(r.s, inBuf, len, total, crc32(crc, in), r.file)
           ELSE [file |-> r.file, crc |-> crc32(crc, in), totalCount |-> total]
    IN  At(Rest, ZipWriteInner(s, in, flush, file))

\* IcsWriteZip(inBuf, len, file, level): [error, out], out the bytes put
\* into the file
IcsWriteZip(inBuf, len, level, fault) ==
    CASE fault = "malloc" -> [error |-> "Alloc", out |-> <<>>]
      [] fault = "version" -> [error |-> "WrongZlibVersion", out |-> <<>>]
      [] fault = "init" -> [error |-> "CompressionProblem", out |-> <<>>]
      [] fault = "fwrite" -> [error |-> "FWriteIds", out |-> GzHeader]
      [] OTHER ->
           LET Rest(r) ==
                  [error |-> "Ok",
                   out |-> r.file \o icsPutLong(r.crc)
                                  \o icsPutLong(r.totalCount % LongMod)]
           IN  At(Rest, ZipWriteOuter(NewDeflate(level), inBuf, len, 0, 0, GzHeader))

\* the flush loop of IcsWriteZipWithStrides: fwrite what outBuf holds, then
\* deflate with Z_FINISH until a call leaves room or ends the stream
RECURSIVE ZipFlush(_, _, _, _)
ZipFlush(s, outBuf, file, done) ==
    LET written == file \o outBuf
        Rest(r) ==
           IF r.err \notin {"Z_OK", "Z_STREAM_END"}
           THEN [error |-> "CompressionProblem", file |-> written]
           ELSE ZipFlush(r.s, r.out, written,
                         Len(r.out) < ICS_BUF_SIZE \/ r.err = "Z_STREAM_END")
    IN  IF done THEN [error |-> "Ok", file |-> written]
        ELSE At(Rest, deflate(s, <<>>, ICS_BUF_SIZE, "Z_FINISH"))

\* the while (1) loop of IcsWriteZipWithStrides over the lines: st holds the
\* stream, outBuf's contents, the file, the checksum and the byte count
RECURSIVE ZipLines(_, _, _, _, _, _, _, _)
ZipLines(src, dim, stride, nDims, nBytes, curPos, st, garbage) ==
    LET line == LineAt(src, dim, stride, nBytes, curPos, nDims, garbage)
        full == line # <<>> /\ Len(st.outBuf) = ICS_BUF_SIZE
        outBuf == IF full THEN <<>> ELSE st.outBuf
        file == IF full THEN st.file \o st.outBuf ELSE st.file
        Rest(r) ==
           LET nxt == WriteNextLine(curPos, dim, nDims, 2)
               st2 == [s |-> r.s, outBuf |-> outBuf \o r.out, file |-> file,
                       crc |-> crc32(st.crc, line),
                       totalCount |-> AddSz(st.totalCount, Len(line))]
           IN  IF nxt.done THEN st2
               ELSE ZipLines(src, dim, stride, nDims, nBytes, nxt.curPos, st2, garbage)
    IN  At(Rest, IF line = <<>> THEN [s |-> st.s, out |-> <<>>, err |-> "Z_OK"]
                 ELSE deflate(st.s, line, ICS_BUF_SIZE - Len(outBuf), "Z_NO_FLUSH"))

\* IcsWriteZipWithStrides(src, dim, stride, nDims, nBytes, file, level)
IcsWriteZipWithStrides(src, dim, stride, nDims, nBytes, level, fault, garbage) ==
    CASE fault = "malloc" -> [error |-> "Alloc", out |-> <<>>]
      [] fault = "version" -> [error |-> "WrongZlibVersion", out |-> <<>>]
      [] fault = "init" -> [error |-> "CompressionProblem", out |-> <<>>]
      [] fault = "fwrite" -> [error |-> "FWriteIds", out |-> GzHeader]
      [] OTHER ->
           LET Lines(st) ==
                  LET Trail(f) ==
                         IF f.error # "Ok" THEN [error |-> f.error, out |-> f.file]
                         ELSE [error |-> "Ok",
                               out |-> f.file \o icsPutLong(st.crc)
                                       \o icsPutLong(st.totalCount % LongMod)]
                  IN  At(Trail, ZipFlush(st.s, st.outBuf, st.file, FALSE))
           IN  At(Lines, ZipLines(src, dim, stride, nDims, nBytes,
                                  [i \in 1..nDims |-> 0],
                                  [s |-> NewDeflate(level), outBuf |-> <<>>,
                                   file |-> GzHeader, crc |-> 0, totalCount |-> 0],
                                  garbage))

(***************************************************************************)
(* Writing a file: IcsSetCompression, IcsWriteIds and the write branch of  *)
(* IcsClose; then reading it back with IcsOpen and IcsGetData.             *)
(***************************************************************************)
\* most bytes of a payload
MaxPayload == 4

\* the compression levels handed to IcsSetCompression
CompLevels == 1..9

\* the companion file of a version-1 header (IcsGetIdsName)
FileIds == "Filename.ids"
WritePaths == {FileF, FileIds}

\* nwrite of IcsWriteIds: the most bytes one fwrite is given (1 GiB in the
\* code, scaled)
nwrite == 3

\* IcsSetCompression on the write state w = [h, Compression, CompLevel, ..]
SetCompression(w, compression, level) ==
    IF ~ICS_FM_WD(w.h) THEN [error |-> "NotValidAction", w |-> w]
    ELSE [error |-> "Ok",
          w |-> [w EXCEPT !.Compression = IF compression = "compress" THEN "gzip"
                                          ELSE compression,
                          !.CompLevel = level]]

\* the while loop of the contiguous writer in IcsWriteIds: blocks of nwrite
\* bytes, then the rest; failAt is the fwrite call that fails (0: none)
RECURSIVE WriteChunks(_, _, _, _, _, _)
WriteChunks(src, p, n, out, calls, failAt) ==
    IF n = 0 THEN [error |-> "Ok", out |-> out]
    ELSE IF failAt = calls + 1 THEN [error |-> "FWriteIds", out |-> out]
    ELSE IF n >= nwrite
    THEN WriteChunks(src, p + nwrite, n - nwrite, out \o BytesAt(src, p, nwrite, 0),
                     calls + 1, failAt)
    ELSE WriteChunks(src, p + n, 0, out \o BytesAt(src, p, n, 0), calls + 1, failAt)

\* the switch of IcsWriteIds on the compression: [error, out]
WriteBody(w, fault, garbage) ==
    LET h == w.h
        dim == [i \in 1..h.Dimensions |-> h.Dim[i].Size]
        size == IcsGetDataTypeSize(h.DataType)
        failAt == IF fault = "fwrite" THEN 1 ELSE 0
    IN  CASE w.Compression = "uncompressed" ->
               IF h.DataStrides # NoStrides
               THEN IcsWritePlainWithStrides(w.mem, dim, h.DataStrides, h.Dimensions,
                                             size, failAt, garbage)
               ELSE WriteChunks(w.mem, 0, h.DataLength, <<>>, 0, failAt)
          [] w.Compression = "gzip" ->
               IF h.DataStrides # NoStrides
               THEN IcsWriteZipWithStrides(w.mem, dim, h.DataStrides, h.Dimensions,
                                           size, w.CompLevel, fault, garbage)
               ELSE IcsWriteZip(w.mem, h.DataLength, w.CompLevel, fault)
          [] OTHER -> [error |-> "UnknownCompression", out |-> <<>>]

\* the mutant of IcsWriteIds: version 2 opens the file anew as version 1
\* does, and the header is lost
IcsWriteIdsAnew(w, f, fopenOk, fault, fcloseOk, garbage) ==
    LET h == w.h
        filename == IF h.Version = 1 THEN FileIds ELSE FileF
        Rest(b) ==
           [error |-> IF b.error = "Ok" /\ ~fcloseOk THEN "FCloseIds" ELSE b.error,
            f |-> [f EXCEPT ![filename] = File(b.out)], opened |-> TRUE]
    IN  IF h.Version # 1 /\ h.SrcFile # ""
        THEN [error |-> "Ok", f |-> f, opened |-> FALSE]
        ELSE IF h.Data = NULL \/ h.DataLength = 0
        THEN [error |-> "MissingData", f |-> f, opened |-> FALSE]
        ELSE IF ~fopenOk THEN [error |-> "FOpenIds", f |-> f, opened |-> FALSE]
        ELSE At(Rest, WriteBody(w, fault, garbage))

\* IcsWriteIds on files f: [error, f, opened]. Version 1 writes the companion
\* file anew, version 2 appends to the file that holds the header.
IcsWriteIds(w, f, fopenOk, fault, fcloseOk, garbage) ==
    LET h == w.h
        filename == IF h.Version = 1 THEN FileIds ELSE FileF
        before == IF h.Version = 1 THEN <<>> ELSE f[filename].data
        Rest(b) ==
           [error |-> IF b.error = "Ok" /\ ~fcloseOk THEN "FCloseIds" ELSE b.error,
            f |-> [f EXCEPT ![filename] = File(before \o b.out)], opened |-> TRUE]
    IN  IF h.Version # 1 /\ h.SrcFile # ""
        THEN [error |-> "Ok", f |-> f, opened |-> FALSE]
        ELSE IF h.Data = NULL \/ h.DataLength = 0
        THEN [error |-> "MissingData", f |-> f, opened |-> FALSE]
        ELSE IF ~fopenOk THEN [error |-> "FOpenIds", f |-> f, opened |-> FALSE]
        ELSE At(Rest, WriteBody(w, fault, garbage))

\* what the header tells of the data, for the reader of the file: the
\* layout, the compression, the byte order and where the body is
HeaderOf(w, hdr, byteOrder) ==
    [Version |-> w.h.Version, Dimensions |-> w.h.Dimensions, Dim |-> w.h.Dim,
     DataType |-> w.h.DataType, Compression |-> w.Compression,
     ByteOrder |-> byteOrder,
     SrcFile |-> IF w.h.Version = 1 THEN ""
                 ELSE IF w.h.SrcFile # "" THEN w.h.SrcFile ELSE FileF,
     SrcOffset |-> IF w.h.Version = 1 THEN 0
                   ELSE IF w.h.SrcFile # "" THEN w.h.SrcOffset ELSE Len(hdr)]

NoHeader == [Version |-> 0, Dimensions |-> 0, Dim |-> [i \in DimIdx |-> EmptyDim],
             DataType |-> "Ics_unknown", Compression |-> "uncompressed",
             ByteOrder |-> <<>>, SrcFile |-> "", SrcOffset |-> 0]

WritePlat == [dirWritable |-> TRUE, renameReplaces |-> TRUE]

\* the mutant of CloseWrite: the body is written whatever the header writer
\* returned
CloseWriteAlways(w, f, hdr, byteOrder, outcome, fopenOk, fault, fcloseOk, garbage) ==
    LET Body(hw) ==
           LET Rest(b) ==
                  [error |-> IF hw.error = "Ok" THEN b.error ELSE hw.error,
                   f |-> b.f, trace |-> <<"IcsWriteIcs", "IcsWriteIds">>,
                   hdrError |-> hw.error, opened |-> b.opened,
                   meta |-> IF hw.error = "Ok" THEN HeaderOf(w, hdr, byteOrder)
                            ELSE NoHeader,
                   freed |-> TRUE]
           IN  At(Rest, IcsWriteIds(w, hw.f, fopenOk, fault, fcloseOk, garbage))
    IN  At(Body, IcsWriteIcs(f, FileF, hdr, WritePlat, outcome))

\* the write branch of IcsClose: error = IcsWriteIcs(ics, NULL);
\* ICSCX(IcsWriteIds(ics)); then the handle is freed. trace lists the
\* writers called, in the order of the calls.
CloseWrite(w, f, hdr, byteOrder, outcome, fopenOk, fault, fcloseOk, garbage) ==
    LET Body(hw) ==
           LET Rest(b) ==
                  [error |-> b.error, f |-> b.f,
                   trace |-> <<"IcsWriteIcs", "IcsWriteIds">>,
                   hdrError |-> hw.error, opened |-> b.opened,
                   meta |-> HeaderOf(w, hdr, byteOrder), freed |-> TRUE]
           IN  IF hw.error # "Ok"
               THEN [error |-> hw.error, f |-> hw.f, trace |-> <<"IcsWriteIcs">>,
                     hdrError |-> hw.error, opened |-> FALSE, meta |-> NoHeader,
                     freed |-> TRUE]
               ELSE At(Rest, IcsWriteIds(w, hw.f, fopenOk, fault, fcloseOk, garbage))
    IN  At(Body, IcsWriteIcs(f, FileF, hdr, WritePlat, outcome))

\* IcsOpenZip on the file from position offset on: [error, start], start the
\* position behind the gzip header. The files here carry no optional field
\* (the writers set no flag), so only the fixed ten bytes are skipped.
RESERVED == 224

IcsOpenZipAt(file, offset) ==
    LET g(k) == IF offset + k <= Len(file) THEN file[offset + k] ELSE -1
    IN  IF g(1) # GzHeader[1] \/ g(2) # GzHeader[2]
        THEN [error |-> "CorruptedStream", start |-> offset]
        ELSE IF g(3) # Z_DEFLATED \/ g(4) = -1 \/ g(4) >= (256 - RESERVED)
        THEN [error |-> "CorruptedStream", start |-> offset]
        ELSE [error |-> "Ok", start |-> offset + 10]

\* the handle IcsOpen(.., "r") builds from the header
IcsReadIcs(meta) ==
    [NewHandle("read", meta.Version) EXCEPT
        !.Dimensions = meta.Dimensions, !.Dim = meta.Dim,
        !.DataType = meta.DataType, !.SrcFile = meta.SrcFile,
        !.SrcOffset = meta.SrcOffset]

\* IcsGetData(ics, dest, n) on the handle of the file just opened for
\* reading: IcsOpenIds, IcsReadIdsBlock, IcsCloseIds. [error, out]
GetDataBack(meta, f, n, littleEndian, closeErr) ==
    LET h == IcsReadIcs(meta)
        filename == IF h.Version = 1 THEN FileIds ELSE h.SrcFile
        offset == IF h.Version = 1 THEN 0 ELSE h.SrcOffset
        bytes == IcsGetBytesPerSample(h)
        Closed(r) == [error |-> IF r.error = "Ok" THEN closeErr ELSE r.error,
                      out |-> r.out]
        Zip(file) ==
           LET z == IcsOpenZipAt(file, offset)
               Rest(r) ==
                  LET o == IcsReorderIds(r.out, meta.ByteOrder, bytes, littleEndian)
                  IN  Closed(IF r.error # "Ok" THEN [error |-> r.error, out |-> r.out]
                             ELSE [error |-> o.error, out |-> o.buf])
           IN  IF z.error # "Ok" THEN [error |-> z.error, out |-> <<>>]
               ELSE At(Rest, ReadZipBlock(SubSeq(file, z.start + 1, Len(file)),
                                          NewZipRead, n))
    IN  IF ~ICS_FM_RD(h) THEN [error |-> "NotValidAction", out |-> <<>>]
        ELSE IF n = 0 THEN [error |-> "Ok", out |-> <<>>]
        ELSE IF h.Version # 1 /\ h.SrcFile = ""
        THEN [error |-> "MissingData", out |-> <<>>]
        ELSE IF filename \notin DOMAIN f \/ ~f[filename].exists
        THEN [error |-> "FOpenIds", out |-> <<>>]
        ELSE CASE meta.Compression = "uncompressed" ->
                    Closed(ReadIdsBlock(h, [file |-> f[filename].data,
                                            ByteOrder |-> meta.ByteOrder,
                                            littleEndian |-> littleEndian],
                                        offset, n))
               [] meta.Compression = "gzip" -> Zip(f[filename].data)
               [] OTHER -> Closed([error |-> "UnknownCompression", out |-> <<>>])

\* the canonical strides of a layout: 1, dim_0, dim_0 * dim_1, ..
RECURSIVE Canonical(_, _)
Canonical(dims, i) == IF i <= 1 THEN 1 ELSE Canonical(dims, i - 1) * dims[i - 1]

CanonicalStrides(dims) == [i \in 1..Len(dims) |-> Canonical(dims, i)]

\* the strides handed over with a buffer: the canonical ones, or every
\* second sample along the first dimension
WriteStrides(dims) ==
    {CanonicalStrides(dims), [i \in 1..Len(dims) |-> IF i = 1 THEN 2 ELSE 1]}

\* the sample kinds of the files written here
WriteTypes == {"Ics_uint8", "Ics_uint16"}

\* how the data was attached to the handle
Attachments == {"none", "IcsSetData", "IcsSetDataWithStrides", "IcsSetSource"}

WriteNoClose == [done |-> FALSE, error |-> "Ok", trace |-> <<>>, hdrError |-> "Ok",
                 opened |-> FALSE, meta |-> NoHeader, freed |-> FALSE,
                 faulty |-> FALSE, hdr |-> <<>>]
WriteNoRead == [done |-> FALSE, error |-> "Ok", out |-> <<>>, n |-> 0,
                faulty |-> FALSE]

\* the handle after IcsOpen(.., "w"), IcsSetLayout, IcsSetCompression and
\* one call that attaches the data (or none)
Attach(h, attach, mem, strides) ==
    CASE attach = "IcsSetData" -> SetData(h, "bufA", Len(mem))
      [] attach = "IcsSetDataWithStrides" ->
            SetDataWithStrides(h, "bufA", Len(mem), strides, Len(strides))
      [] attach = "IcsSetSource" -> SetSource(h, "other.ids", 0)
      [] OTHER -> [error |-> "Ok", h |-> h]

InitWrite ==
    /\ oCall = OpenIdle
    /\ ics = NewHandle("read", 2)
    /\ last = LastIdle
    /\ fs = FsIdle /\ upd = UpdIdle /\ closeRes = CloseIdle
    /\ zip = ZipIdle /\ zret = ZretIdle /\ roi = RoiIdle
    /\ lzw = LzwIdle /\ bo = BoIdle
    /\ \E version \in {1, 2}, dt \in WriteTypes, nDims \in 1..ICS_MAXDIM,
          attach \in Attachments, littleEndian \in BOOLEAN,
          compression \in {"uncompressed", "gzip", "compress"},
          level \in CompLevels :
          \E dims \in [1..nDims -> 0..MaxPayload] :
             \E lay \in {SetLayout(NewHandle("write", version), dt, nDims, dims)} :
                /\ IcsGetDataSize(lay.h) <= MaxPayload
                /\ compression # "gzip" => level = 1
                /\ IcsGetDataTypeSize(dt) = 1 => littleEndian
                /\ \E mem \in [1..IcsGetDataSize(lay.h) -> BodyBytes],
                      strides \in WriteStrides(dims) :
                      \E a \in {Attach(lay.h, attach, mem, strides)} :
                         /\ attach # "IcsSetDataWithStrides"
                               => strides = CanonicalStrides(dims)
                         /\ attach \in {"none", "IcsSetSource"}
                               => mem = [i \in 1..IcsGetDataSize(lay.h) |-> 0]
                         /\ a.error \in {"Ok", "FSizeConflict"}
                         /\ wr = SetCompression(
                                    [h |-> a.h, Compression |-> "uncompressed",
                                     CompLevel |-> 0, mem |-> mem,
                                     littleEndian |-> littleEndian,
                                     attach |-> attach, setError |-> a.error,
                                     f |-> [p \in WritePaths |-> NoFile],
                                     close |-> WriteNoClose, read |-> WriteNoRead],
                                    compression, level).w

Others7 == <<oCall, ics, last, fs, upd, closeRes, zip, zret, roi, lzw, bo>>

\* the faults of the environment are taken with the payloads of at most
\* this many bytes
MaxFaultPayload == 1

\* IcsClose on the write-mode handle
IcsCloseWrite ==
    /\ ~wr.close.done
    /\ \E hdr \in NewHeaders, unspecified \in BOOLEAN, outcome \in WriteOutcomes,
          fopenOk \in BOOLEAN, fault \in ZipFaults, fcloseOk \in BOOLEAN,
          garbage \in BodyBytes :
          LET faulty == outcome # "ok" \/ ~fopenOk \/ fault # "none" \/ ~fcloseOk
              bytes == IcsGetDataTypeSize(wr.h.DataType)
              byteOrder == IF unspecified THEN [i \in 1..bytes |-> 0]
                           ELSE IcsFillByteOrder(bytes, wr.littleEndian)
          IN  /\ Len(wr.mem) > MaxFaultPayload => ~faulty /\ Len(hdr) > 1
              /\ \E c \in {CloseWrite(wr, wr.f, hdr, byteOrder, outcome, fopenOk,
                                      fault, fcloseOk, garbage)} :
                    wr' = [wr EXCEPT !.f = c.f,
                                     !.close = [done |-> TRUE, error |-> c.error,
                                                trace |-> c.trace,
                                                hdrError |-> c.hdrError,
                                                opened |-> c.opened,
                                                meta |-> c.meta, freed |-> c.freed,
                                                faulty |-> faulty, hdr |-> hdr]]
    /\ UNCHANGED Others7

\* IcsOpen(.., "r") on the file written, then IcsGetData with n the data
\* size of the layout the header tells
IcsGetDataBack ==
    /\ wr.close.done /\ wr.close.hdrError = "Ok"
    /\ ~wr.read.done
    /\ \E closeErr \in {"Ok", "FCloseIds"} :
          LET n == IcsGetDataSize(IcsReadIcs(wr.close.meta))
          IN  /\ Len(wr.mem) > MaxFaultPayload => closeErr = "Ok"
              /\ \E r \in {GetDataBack(wr.close.meta, wr.f, n, wr.littleEndian,
                                       closeErr)} :
                    wr' = [wr EXCEPT !.read = [done |-> TRUE, error |-> r.error,
                                               out |-> r.out, n |-> n,
                                               faulty |-> closeErr # "Ok"]]
    /\ UNCHANGED Others7

NextWrite ==
    \/ IcsCloseWrite
    \/ IcsGetDataBack

SpecWrite == InitWrite /\ [][NextWrite]_vars

(***************************************************************************)
(* Claims on writing a file and reading it back (SpecWrite).               *)
(***************************************************************************)
\* the body of the file written: the companion file of version 1, what
\* follows the header in the file of version 2
WrittenBody ==
    IF wr.h.Version = 1 THEN wr.f[FileIds].data
    ELSE SubSeq(wr.f[FileF].data, Len(wr.close.hdr) + 1, Len(wr.f[FileF].data))

\* C19: IcsClose on a write-mode handle writes the header first and calls
\* the body writer only if the header writer succeeded (otherwise it returns
\* the header writer's error and no body file is opened); with the header
\* written, it returns MissingData when no buffer is attached (Data null or
\* DataLength 0) and no external source is named; when a version-2 handle
\* names an external source the body write is skipped without an error and
\* the file holds the header alone; the handle is freed in every case.
C19_Claim ==
    wr.close.done =>
       /\ Head(wr.close.trace) = "IcsWriteIcs"
       /\ wr.close.trace = <<"IcsWriteIcs", "IcsWriteIds">>
             <=> wr.close.hdrError = "Ok"
       /\ wr.close.hdrError # "Ok" =>
             /\ wr.close.error = wr.close.hdrError
             /\ ~wr.close.opened /\ ~wr.f[FileIds].exists
       /\ (/\ wr.close.hdrError = "Ok" /\ wr.h.SrcFile = ""
           /\ (wr.h.Data = NULL \/ wr.h.DataLength = 0))
             => wr.close.error = "MissingData" /\ ~wr.close.opened
       /\ (wr.close.hdrError = "Ok" /\ wr.h.Version = 2 /\ wr.h.SrcFile # "")
             => /\ wr.close.error = "Ok" /\ ~wr.close.opened
                /\ wr.f[FileF].data = wr.close.hdr /\ ~wr.f[FileIds].exists
       /\ wr.close.freed

\* C19's case: a version-2 handle that names an external source is closed,
\* header and body writer are called, and IcsClose returns Ok
C19_Witness ==
    /\ wr.close.done /\ wr.close.error = "Ok"
    /\ wr.h.Version = 2 /\ wr.h.SrcFile # ""
    /\ wr.close.trace = <<"IcsWriteIcs", "IcsWriteIds">>

\* the handle of wr with the buffer attached the other way: with the
\* canonical strides if it was attached without strides, and the reverse
Layout(h) == [i \in 1..h.Dimensions |-> h.Dim[i].Size]

OtherWay ==
    LET bare == [wr.h EXCEPT !.Data = NULL, !.DataLength = 0,
                             !.DataStrides = NoStrides]
    IN  [wr EXCEPT !.h = Attach(bare,
                                IF wr.attach = "IcsSetData"
                                THEN "IcsSetDataWithStrides" ELSE "IcsSetData",
                                wr.mem, CanonicalStrides(Layout(wr.h))).h]

\* a gzip body taken apart: the bytes its codes stand for, and its trailer
GzInflated(body) ==
    Decode(SubSeq(body, Len(GzHeader) + 1, Len(body) - 9))
GzTrailer(body) == SubSeq(body, Len(body) - 7, Len(body))

\* a buffer of exactly data-size bytes was attached, without strides or
\* with the canonical strides, and IcsClose wrote the file without a fault
ContiguousWritten ==
    /\ wr.close.done /\ wr.close.error = "Ok"
    /\ wr.setError = "Ok"
    /\ \/ wr.attach = "IcsSetData"
       \/ /\ wr.attach = "IcsSetDataWithStrides"
          /\ wr.h.DataStrides = CanonicalStrides(Layout(wr.h))

C16_Claim ==
    /\ (/\ wr.close.done /\ wr.attach = "IcsSetData" /\ wr.setError = "Ok"
        /\ ~wr.close.faulty /\ Len(wr.mem) > 0)
          => wr.close.error = "Ok"
    /\ (/\ wr.read.done /\ wr.attach = "IcsSetData" /\ wr.setError = "Ok"
        /\ wr.close.error = "Ok")
          => /\ wr.read.n = Len(wr.mem)
             /\ wr.read.out = wr.mem
             /\ ~wr.read.faulty => wr.read.error = "Ok"

\* C16's case: four bytes of two 16-bit samples are written into a gzip
\* body at level 9 on a big-endian machine and read back
C16_Witness ==
    /\ wr.read.done /\ wr.read.error = "Ok" /\ wr.close.error = "Ok"
    /\ wr.attach = "IcsSetData" /\ wr.Compression = "gzip" /\ wr.CompLevel = 9
    /\ wr.h.DataType = "Ics_uint16" /\ ~wr.littleEndian
    /\ wr.read.out = <<0, 1, 1, 1>>

(***************************************************************************)
(* A gzip body longer than the trailer's length field counts (SpecLong):   *)
(* written by IcsWriteZip or IcsWriteZipWithStrides, read by the calls of  *)
(* the gzip reader.                                                        *)
(***************************************************************************)
\* the lengths of the body around LongMod (2^32 in the code)
LongLengths == {LongMod - 1, LongMod, LongMod + 1}

\* the payload of a long body: runs of three equal bytes
LongPayload(len) == [i \in 1..len |-> (i \div 3) % 2]

\* a read-mode handle on the gzip body one of the writers made of a payload
\* of one-byte samples
InitLong ==
    /\ oCall = OpenIdle
    /\ lzw = LzwIdle
    /\ bo = BoIdle /\ wr = WrIdle
    /\ ics = NewHandle("read", 2)
    /\ last = LastIdle
    /\ fs = FsIdle /\ upd = UpdIdle /\ closeRes = CloseIdle
    /\ roi = RoiIdle
    /\ zret = ZretIdle
    /\ \E len \in LongLengths, level \in {1, 9}, strided \in BOOLEAN :
          \E w \in {IF strided
                    THEN IcsWriteZipWithStrides(LongPayload(len), <<len>>, <<1>>, 1, 1,
                                                level, "none", 0)
                    ELSE IcsWriteZip(LongPayload(len), len, level, "none")} :
             /\ w.error = "Ok"
             /\ zip = [file |-> SubSeq(w.out, IcsOpenZipAt(w.out, 0).start + 1,
                                       Len(w.out)),
                       body |-> LongPayload(len), kind |-> "good",
                       hdrOk |-> IcsOpenZipAt(w.out, 0).error = "Ok",
                       open |-> FALSE, z |-> NewZipRead, asked |-> 0, blocks |-> TRUE]

NextLong ==
    \/ IcsGetDataZip
    \/ IcsGetDataBlockZip
    \/ IcsSkipDataBlockZip

SpecLong == InitLong /\ [][NextLong]_vars

\* the length the trailer of the file holds
StoredLength == icsGetLong(zip.file, Len(zip.file) - 4)

\* C30 as stated: a gzip body the writers made of L >= 2^32 bytes stores
\* L mod 2^32 in its trailer, and the reader's length check compares the
\* stored value with the count of the bytes produced modulo 2^32, so that no
\* read of such a stream, up to its end or beyond, returns CorruptedStream.
C30_Claim ==
    (zip.hdrOk /\ Len(zip.body) >= LongMod)
       => /\ StoredLength = Len(zip.body) % LongMod
          /\ zret.error # "CorruptedStream"

(***************************************************************************)
(* IcsGuessScilType (SpecScil).                                            *)
(***************************************************************************)
\* most dimensions of the handles IcsGuessScilType is tried on (the code's
\* ICS_MAXDIM is 10: IcsSetLayout builds handles of more than 3 dimensions)
MaxScilDims == 5

GreyTypes == {"Ics_uint8", "Ics_sint8", "Ics_uint16", "Ics_sint16"}
RefusedTypes == {"Ics_uint32", "Ics_sint32", "Ics_real64", "Ics_complex64"}

\* the first character of the tag of a sample kind
ScilPrefix(dt) ==
    CASE dt \in GreyTypes -> "g"
      [] dt = "Ics_real32" -> "f"
      [] dt = "Ics_complex32" -> "c"

\* IcsGuessScilType with the test for more than 3 dimensions left out
GuessScilTypeNoLimit(h) ==
    IF ~ICS_FM_WMD(h) THEN [error |-> "NotValidAction", h |-> h]
    ELSE IF h.DataType \in RefusedTypes THEN [error |-> "NoScilType", h |-> h]
    ELSE IF h.DataType \notin GreyTypes \cup {"Ics_real32", "Ics_complex32"}
    THEN [error |-> "NotValidAction", h |-> [h EXCEPT !.ScilType[1] = NUL]]
    ELSE [error |-> "Ok",
          h |-> [h EXCEPT !.ScilType =
                    <<ScilPrefix(h.DataType),
                      IF h.Dimensions >= 3 THEN "3" ELSE "2", "d", NUL>>]]

\* IcsGuessScilType: the characters of ScilType are set one by one
GuessScilType(h) ==
    IF ~ICS_FM_WMD(h) THEN [error |-> "NotValidAction", h |-> h]
    ELSE IF h.DataType \in RefusedTypes THEN [error |-> "NoScilType", h |-> h]
    ELSE IF h.DataType \notin GreyTypes \cup {"Ics_real32", "Ics_complex32"}
    THEN [error |-> "NotValidAction", h |-> [h EXCEPT !.ScilType[1] = NUL]]
    ELSE LET s1 == [h.ScilType EXCEPT ![1] = ScilPrefix(h.DataType)]
             s2 == IF h.Dimensions = 3 THEN [s1 EXCEPT ![2] = "3"]
                   ELSE IF h.Dimensions > 3 THEN [s1 EXCEPT ![1] = NUL]
                   ELSE [s1 EXCEPT ![2] = "2"]
         IN  [error |-> IF h.Dimensions > 3 THEN "NoScilType" ELSE "Ok",
              h |-> [h EXCEPT !.ScilType = [s2 EXCEPT ![3] = "d", ![4] = NUL]]]

\* the string a character array holds: the characters before the first NUL
RECURSIVE CStr(_)
CStr(buf) ==
    IF buf = <<>> \/ buf[1] = NUL THEN <<>>
    ELSE <<buf[1]>> \o CStr(Tail(buf))

Others8 == <<oCall, fs, upd, closeRes, zip, zret, roi, lzw, bo, wr>>

IcsGuessScilType ==
    /\ last.calls < MaxCalls
    /\ \E r \in {GuessScilType(ics)} :
          /\ ics' = r.h
          /\ last' = [op |-> "IcsGuessScilType", error |-> r.error,
                      calls |-> last.calls + 1, laid |-> last.laid]
    /\ UNCHANGED Others8

\* a handle of any mode, sample kind and dimension count, with the tag
\* IcsInit left or one set before
InitScil ==
    /\ oCall = OpenIdle
    /\ lzw = LzwIdle
    /\ bo = BoIdle /\ wr = WrIdle
    /\ last = LastIdle
    /\ fs = FsIdle /\ upd = UpdIdle /\ closeRes = CloseIdle
    /\ zip = ZipIdle /\ zret = ZretIdle
    /\ roi = RoiIdle
    /\ \E fm \in {"write", "update", "read"}, dt \in DataTypes, d \in 0..MaxScilDims,
          tag \in {NoScilTag, <<"c", "3", "d", NUL>>} :
          ics = [NewHandle(fm, 2) EXCEPT !.DataType = dt, !.Dimensions = d,
                                         !.ScilType = tag]

NextScil == IcsGuessScilType

SpecScil == InitScil /\ [][NextScil]_vars

\* IcsGuessScilType returned on a writable handle
Guessed == last.op = "IcsGuessScilType" /\ ICS_FM_WMD(ics)

\* what the claim says of the kinds with a tag and of the refused kinds
ScilTable ==
    /\ (ics.DataType \in GreyTypes \cup {"Ics_real32", "Ics_complex32"}
          /\ ics.Dimensions <= 3)
         => /\ last.error = "Ok"
            /\ CStr(ics.ScilType) =
                  <<ScilPrefix(ics.DataType),
                    IF ics.Dimensions = 3 THEN "3" ELSE "2", "d">>
    /\ ics.DataType \in RefusedTypes => last.error = "NoScilType"

\* C23 as stated: on a writable handle the tag is "g", "f" or "c" for the
\* kinds of the table, followed by "2d" below 3 dimensions and "3d" for 3
\* dimensions, with Ok; NoScilType for u32, s32, f64 and c64, and for any
\* kind when there are more than 3 dimensions.
C23_Original ==
    Guessed =>
       /\ ScilTable
       /\ ics.Dimensions > 3 => last.error = "NoScilType"

\* C23, amended: as above, but NoScilType for more than 3 dimensions is
\* returned for the ten kinds of samples; for the unknown kind the call
\* returns NotValidAction and empties the tag, whatever the dimensions.
C23_Amended ==
    Guessed =>
       /\ ScilTable
       /\ (ics.Dimensions > 3 /\ ics.DataType # "Ics_unknown")
             => last.error = "NoScilType"
       /\ ics.DataType = "Ics_unknown"
             => (last.error = "NotValidAction" /\ CStr(ics.ScilType) = <<>>)

\* a 3-d image of real32 samples got the tag "f3d"
C23_Witness ==
    /\ Guessed
    /\ ics.DataType = "Ics_real32" /\ ics.Dimensions = 3
    /\ last.error = "Ok" /\ CStr(ics.ScilType) = <<"f", "3", "d">>

(***************************************************************************)
(* The significant bits of a sample (SpecBits).                            *)
(***************************************************************************)
\* IcsSetSignificantBits: nbits is cut down to the width of the sample kind
\* the handle holds at the call
SetSignificantBits(h, nbits) ==
    LET maxbits == MulSz(IcsGetDataTypeSize(h.DataType), 8)
    IN  IF ~ICS_FM_WD(h) THEN [error |-> "NotValidAction", h |-> h]
        ELSE IF h.Dimensions = 0 THEN [error |-> "NoLayout", h |-> h]
        ELSE [error |-> "Ok",
              h |-> [h EXCEPT !.SigBits = IF nbits > maxbits THEN maxbits ELSE nbits]]

\* the counts a caller hands to IcsSetSignificantBits
BitCounts == {0, 8, 16, SizeMod - 1}

IcsSetSignificantBits ==
    /\ last.calls < MaxCalls
    /\ \E nbits \in BitCounts :
          \E r \in {SetSignificantBits(ics, nbits)} :
             /\ ics' = r.h
             /\ last' = [op |-> "IcsSetSignificantBits", error |-> r.error,
                         calls |-> last.calls + 1, laid |-> last.laid]
    /\ UNCHANGED Others8

\* a handle as IcsOpen leaves it, in write or in read mode
InitBits ==
    /\ oCall = OpenIdle
    /\ lzw = LzwIdle
    /\ bo = BoIdle /\ wr = WrIdle
    /\ \E fm \in {"write", "read"}, v \in {1, 2} : ics = NewHandle(fm, v)
    /\ last = LastIdle
    /\ fs = FsIdle /\ upd = UpdIdle /\ closeRes = CloseIdle
    /\ zip = ZipIdle /\ zret = ZretIdle
    /\ roi = RoiIdle

NextBits ==
    \/ IcsSetLayout
    \/ IcsSetSignificantBits

SpecBits == InitBits /\ [][NextBits]_vars

\* C24 as stated: in every state a write-mode handle reaches by calls of
\* IcsSetLayout and IcsSetSignificantBits, the significant bits it holds are
\* at most 8 times the width in bytes of the sample kind it holds.
C24_Claim ==
    ics.FileMode = "write" => ics.SigBits <= 8 * IcsGetDataTypeSize(ics.DataType)

(***************************************************************************)
(* The position and the order of a dimension (SpecDim).                    *)
(***************************************************************************)
\* Dim[dimension] with dimension < 0 lies before the array, in the members
\* of the record that precede it: what a write there leaves of the handle is
\* not defined. The handle is as it was, or holds another dimension count.
Clobbered(h) == {h} \cup {[h EXCEPT !.Dimensions = d] : d \in 0..ICS_MAXDIM}

\* what a read before the array may find
Strays == {"", "stray"}

\* the units a caller hands to IcsSetPosition
UnitNames == {NULL, "", "um"}

\* IcsSetPosition; ub is the handle an access outside the array leaves.
\* [error, h, accessed]: accessed tells that Dim[dimension] was touched
SetPosition(h, dimension, origin, scale, units, ub) ==
    IF ~ICS_FM_WMD(h) THEN [error |-> "NotValidAction", h |-> h, accessed |-> FALSE]
    ELSE IF dimension >= h.Dimensions
    THEN [error |-> "NotValidAction", h |-> h, accessed |-> FALSE]
    ELSE IF dimension < 0 THEN [error |-> "Ok", h |-> ub, accessed |-> TRUE]
    ELSE [error |-> "Ok",
          h |-> [h EXCEPT !.Dim[dimension + 1].Origin = origin,
                          !.Dim[dimension + 1].Scale = scale,
                          !.Dim[dimension + 1].Unit =
                              IF units # NULL /\ units # "" THEN units
                              ELSE ICS_UNITS_UNDEFINED],
          accessed |-> TRUE]

\* IcsGetPosition with the three pointers given; stray is what a read
\* outside the array finds. [error, origin, scale, units, accessed]
GetPosition(h, dimension, stray) ==
    IF dimension >= h.Dimensions
    THEN [error |-> "NotValidAction", origin |-> 0, scale |-> 0, units |-> NULL,
          accessed |-> FALSE]
    ELSE IF dimension < 0
    THEN [error |-> "Ok", origin |-> 0, scale |-> 0,
          units |-> IF stray # "" THEN stray ELSE ICS_UNITS_UNDEFINED,
          accessed |-> TRUE]
    ELSE [error |-> "Ok", origin |-> h.Dim[dimension + 1].Origin,
          scale |-> h.Dim[dimension + 1].Scale,
          units |-> IF h.Dim[dimension + 1].Unit # "" THEN h.Dim[dimension + 1].Unit
                    ELSE ICS_UNITS_UNDEFINED,
          accessed |-> TRUE]

\* IcsSetOrder for any index: SetOrder for the indices from 0 on; before
\* the array the names are written when one of them is given
SetOrderAt(h, dimension, order, label, ub) ==
    IF dimension >= 0 \/ ~ICS_FM_WMD(h) \/ dimension >= h.Dimensions
    THEN At(LAMBDA r : [error |-> r.error, h |-> r.h, accessed |-> r.error = "Ok"],
            SetOrder(h, dimension, order, label))
    ELSE IF (order # NULL /\ order # "") \/ (label # NULL /\ label # "")
    THEN [error |-> "Ok", h |-> ub, accessed |-> TRUE]
    ELSE [error |-> "NotValidAction", h |-> h, accessed |-> FALSE]

\* IcsGetOrder for any index, with the two pointers given
GetOrderAt(h, dimension, stray) ==
    IF dimension >= 0 \/ dimension >= h.Dimensions
    THEN At(LAMBDA r : [error |-> r.error, order |-> r.order, label |-> r.label,
                        accessed |-> r.error = "Ok"],
            GetOrder(h, dimension))
    ELSE [error |-> "Ok", order |-> stray, label |-> stray, accessed |-> TRUE]

\* the indices a caller hands over
DimArgs == (-1)..ICS_MAXDIM

\* the result of a call on a dimension: before is the handle at the call
DimRet(op, error, dimension, accessed, before) ==
    [op |-> op, error |-> error, calls |-> last.calls + 1, laid |-> last.laid,
     dimension |-> dimension, accessed |-> accessed, before |-> before]

IcsSetPosition ==
    /\ last.calls < MaxCalls
    /\ \E dimension \in DimArgs, origin \in {0, 3}, scale \in {1, 2},
          units \in UnitNames, ub \in Clobbered(ics) :
          \E r \in {SetPosition(ics, dimension, origin, scale, units, ub)} :
             /\ ics' = r.h
             /\ last' = DimRet("IcsSetPosition", r.error, dimension, r.accessed, ics)
    /\ UNCHANGED Others8

IcsGetPosition ==
    /\ last.calls < MaxCalls
    /\ \E dimension \in DimArgs, stray \in Strays :
          \E r \in {GetPosition(ics, dimension, stray)} :
             /\ ics' = ics
             /\ last' = DimRet("IcsGetPosition", r.error, dimension, r.accessed, ics)
    /\ UNCHANGED Others8

IcsSetOrderAt ==
    /\ last.calls < MaxCalls
    /\ \E dimension \in DimArgs, order \in OrderNames, label \in LabelNames,
          ub \in Clobbered(ics) :
          \E r \in {SetOrderAt(ics, dimension, order, label, ub)} :
             /\ ics' = r.h
             /\ last' = DimRet("IcsSetOrder", r.error, dimension, r.accessed, ics)
    /\ UNCHANGED Others8

IcsGetOrderAt ==
    /\ last.calls < MaxCalls
    /\ \E dimension \in DimArgs, stray \in Strays :
          \E r \in {GetOrderAt(ics, dimension, stray)} :
             /\ ics' = ics
             /\ last' = DimRet("IcsGetOrder", r.error, dimension, r.accessed, ics)
    /\ UNCHANGED Others8

NextDim ==
    \/ IcsSetLayout
    \/ IcsSetPosition
    \/ IcsGetPosition
    \/ IcsSetOrderAt
    \/ IcsGetOrderAt

SpecDim == InitBits /\ [][NextDim]_vars

DimOps == {"IcsSetPosition", "IcsGetPosition", "IcsSetOrder", "IcsGetOrder"}

\* C28 as stated: IcsGetPosition, IcsSetPosition, IcsGetOrder and IcsSetOrder
\* touch Dim[dimension] only when 0 <= dimension < Dimensions; for every
\* other index, the negative ones too, they return NotValidAction and leave
\* the handle as it was.
C28_Claim ==
    last.op \in DimOps =>
       LET inside == 0 <= last.dimension /\ last.dimension < last.before.Dimensions
       IN  /\ last.accessed => inside
           /\ ~inside => (last.error = "NotValidAction" /\ ics = last.before)

(***************************************************************************)
(* The specifications.                                                     *)
(***************************************************************************)

InitOpen ==
    /\ oCall = OpenIdle
    /\ lzw = LzwIdle
    /\ bo = BoIdle /\ wr = WrIdle
    /\ ics = NewHandle("write", 2)
    /\ last = LastIdle
    /\ fs = FsIdle /\ upd = UpdIdle /\ closeRes = CloseIdle
    /\ zip = ZipIdle /\ zret = ZretIdle
    /\ roi = RoiIdle

NextOpen == IcsOpen

SpecOpen == InitOpen /\ [][NextOpen]_vars

\* a handle as IcsOpen leaves it: write mode in version 1 or 2, or read mode
Init ==
    /\ oCall = OpenIdle
    /\ lzw = LzwIdle
    /\ bo = BoIdle /\ wr = WrIdle
    /\ \E fm \in {"write", "read"}, v \in {1, 2} : ics = NewHandle(fm, v)
    /\ last = LastIdle
    /\ fs = FsIdle /\ upd = UpdIdle /\ closeRes = CloseIdle
    /\ zip = ZipIdle /\ zret = ZretIdle
    /\ roi = RoiIdle

Next ==
    \/ IcsSetLayout
    \/ IcsSetData
    \/ IcsSetDataWithStrides
    \/ IcsSetSource
    \/ IcsSetOrder

Spec == Init /\ [][Next]_vars

=============================================================================
